---- MODULE Spec2Model ----
(***************************************************************************)
(* A model of the VAR engine of src/application/functions.go:              *)
(* OLSEstimator.Estimate and ReducedFormVAR's Forecast, IRF,               *)
(* RunIRFAnalysis, GrangerCausality, GrangerCausalityMatrix and            *)
(* OutputIRFAnalysisToCSV, and of the driver of src/application/main.go.   *)
(*                                                                         *)
(* Numbers.  The program computes in float64.  The model computes in exact *)
(* integer arithmetic: every hand-built model, history and covariance has  *)
(* small integer entries, on which float64 arithmetic is exact.  Estimate  *)
(* solves a linear system, so its coefficients are exact rationals: they   *)
(* are kept as integer numerators over one common denominator.             *)
(*                                                                         *)
(* Matrices.  A *mat.Dense is a record [rows, cols, data] with data a      *)
(* function on 0..rows-1 to functions on 0..cols-1 (the source's 0-based   *)
(* At(i, j)); a nil pointer is NIL.                                        *)
(*                                                                         *)
(* State.  Every operation of the engine is a method call that returns a   *)
(* value; `call` holds the last call (operation, receiver, arguments) and  *)
(* `ret` what it returned.  ret.kind is "ok" (value, nil error), "error"   *)
(* (nil value, error) or "panic" (a Go run-time panic: an index out of     *)
(* range raised by a slice or by gonum's At).                              *)
(*                                                                         *)
(* Goroutines.  When several calls run at once, `mem` holds the objects    *)
(* they share (the fitted model and the time series) and `threads` each    *)
(* goroutine's call, its position, its local buffers and its result.       *)
(* `files` is the sequence of output files written so far.                 *)
(***************************************************************************)
EXTENDS Integers, Sequences, FiniteSets, TLC

VARIABLES call, ret, mem, threads, files

vars == <<call, ret, mem, threads, files>>

\* A nil pointer.
NIL == [nil |-> TRUE]

\* A nil error.
NoErr == "nil"

\* ------------------------------------------------------------------ bounds

\* Largest number of variables K of a model or a series.
MaxK == 2

\* Largest number of lag matrices of a hand-built model, largest lag order.
MaxP == 2

\* Largest number of rows of a history or a time series.
MaxT == 4

\* Largest forecast step count.
MaxSteps == 3

\* Entries of generated matrices range over 0..MaxVal.
MaxVal == 2

\* Generated coefficient matrices, histories and time series are numbered
\* 0..MaxSeed.
MaxSeed == 2

\* Generated residual covariances are numbered 0..MaxSeedS.
MaxSeedS == 5

\* Largest IRF horizon.
MaxHorizon == 4

\* Iterations of the loop of a call made concurrently with another.
MaxLoop == 2

\* ------------------------------------------------------- Deterministic iota

DetNone == 0

DetConst == 1

DetTrend == 2

DetConstTrend == 3

Deterministics == {DetNone, DetConst, DetTrend, DetConstTrend}

\* ----------------------------------------------------------------- helpers

RECURSIVE SumTo(_, _, _)
\* f[lo] + ... + f[hi], 0 when hi < lo.
SumTo(f, lo, hi) == IF hi < lo THEN 0 ELSE f[hi] + SumTo(f, lo, hi - 1)

RECURSIVE Pow(_, _)
Pow(a, n) == IF n <= 0 THEN 1 ELSE a * Pow(a, n - 1)

\* Dense(r, c, d) is the r x c matrix with entries d, each entry computed once
\* (f @@ f = f; it makes TLC tabulate the function instead of re-evaluating
\* its defining expression at every use).
Dense(r, c, d) ==
    LET rowsOf == [i \in 0..(r - 1) |-> d[i] @@ d[i]]
    IN  [rows |-> r, cols |-> c, data |-> rowsOf @@ rowsOf]

\* mat.NewDense(r, c, nil): an r x c matrix of zeros.
ZeroDense(r, c) ==
    Dense(r, c,
          [i \in 0..(r - 1) |-> [j \in 0..(c - 1) |-> 0]])

\* The i-th entry (0-based) of generated matrix number `seed`, in 0..MaxVal.
\* Seed 0 is the all-zero matrix; the other seeds mix the position into the
\* entry so that rows and columns differ.
Entry(seed, i) == (seed * (i + 1) + (i \div 2) * (seed \div 2)) % (MaxVal + 1)

GenDense(seed, r, c) ==
    Dense(r, c,
          [i \in 0..(r - 1) |-> [j \in 0..(c - 1) |-> Entry(seed, i * c + j)]])

\* ------------------------------------------------------------- data types

ModelSpec(lags, det, exo) ==
    [Lags |-> lags, Deterministic |-> det, HasExogenous |-> exo]

\* A ReducedFormVAR value.  A is the slice rf.A as a sequence: the source's
\* rf.A[i] is A[i + 1].
ReducedFormVAR(spec, A, C, SigmaU) ==
    [Model |-> spec, A |-> A, C |-> C, SigmaU |-> SigmaU]

hasConst(spec) ==
    spec.Deterministic = DetConst \/ spec.Deterministic = DetConstTrend

hasTrend(spec) ==
    spec.Deterministic = DetTrend \/ spec.Deterministic = DetConstTrend

detCols(spec) ==
    (IF hasConst(spec) THEN 1 ELSE 0) + (IF hasTrend(spec) THEN 1 ELSE 0)

detConstIdx == 0

detTrendIdx(spec) == IF hasConst(spec) THEN 1 ELSE 0

\* What a call returns: (value, nil), (nil, error) or a run-time panic.
Ok(v) == [kind |-> "ok", val |-> v, err |-> NoErr]

Err(e) == [kind |-> "error", val |-> NIL, err |-> e]

Panic == [kind |-> "panic", val |-> NIL, err |-> NoErr]

\* gonum's At(i, j) panics unless 0 <= i < rows and 0 <= j < cols.
AtOK(M, i, j) == 0 <= i /\ i < M.rows /\ 0 <= j /\ j < M.cols

\* ---------------------------------------------------------------- Forecast

\* A variant of ForecastSeed that seeds `out` with the first p rows of yHist.
ForecastSeedFromStart(yHist, p, steps) ==
    [i \in 0..(p + steps - 1) |->
        [k \in 0..(yHist.cols - 1) |->
            IF i < p THEN yHist.data[i][k] ELSE 0]]

\* The buffer `out` after the seeding loop: rows 0..p-1 are the last p rows
\* of yHist, the other rows are zero.
ForecastSeed(yHist, p, steps) ==
    LET T == yHist.rows
        K == yHist.cols
    IN  [i \in 0..(p + steps - 1) |->
            [k \in 0..(K - 1) |->
                IF i < p THEN yHist.data[T - p + i][k] ELSE 0]]

\* True when every index the body of the step loop uses is in range: rf.A[lag-1]
\* for lag = 1..p, A.At(eq, j) and rf.C.At(eq, .) for eq, j < K.
ForecastInRange(rf, K) ==
    LET p == rf.Model.Lags
    IN  /\ \A lag \in 1..p :
            /\ lag - 1 < Len(rf.A)
            /\ \A eq \in 0..(K - 1), j \in 0..(K - 1) : AtOK(rf.A[lag], eq, j)
        /\ (rf.C # NIL /\ detCols(rf.Model) > 0) =>
            \A eq \in 0..(K - 1) :
                /\ hasConst(rf.Model) => AtOK(rf.C, eq, detConstIdx)
                /\ hasTrend(rf.Model) => AtOK(rf.C, eq, detTrendIdx(rf.Model))

\* A variant of ForecastDet that scales the constant, not the trend, by tIdx.
ForecastDetSwapped(rf, eq, tIdx) ==
    IF rf.C # NIL /\ detCols(rf.Model) > 0
    THEN (IF hasConst(rf.Model) THEN rf.C.data[eq][detConstIdx] * tIdx ELSE 0)
         + (IF hasTrend(rf.Model)
            THEN rf.C.data[eq][detTrendIdx(rf.Model)] ELSE 0)
    ELSE 0

\* The deterministic part of val for equation eq at time index tIdx.
ForecastDet(rf, eq, tIdx) ==
    IF rf.C # NIL /\ detCols(rf.Model) > 0
    THEN (IF hasConst(rf.Model) THEN rf.C.data[eq][detConstIdx] ELSE 0)
         + (IF hasTrend(rf.Model)
            THEN rf.C.data[eq][detTrendIdx(rf.Model)] * tIdx ELSE 0)
    ELSE 0

\* A variant of ForecastLagged whose lags are off by one row.
ForecastLaggedOffByOne(rf, out, row, eq, K) ==
    LET p == rf.Model.Lags
    IN  SumTo([lag \in 1..p |->
                 SumTo([j \in 0..(K - 1) |->
                          rf.A[lag].data[eq][j] * out[row - lag + 1][j]],
                       0, K - 1)],
              1, p)

\* The lagged part of val: sum over lag = 1..p and j < K of
\* A.At(eq, j) * out.At(row - lag, j).
ForecastLagged(rf, out, row, eq, K) ==
    LET p == rf.Model.Lags
    IN  SumTo([lag \in 1..p |->
                 SumTo([j \in 0..(K - 1) |->
                          rf.A[lag].data[eq][j] * out[row - lag][j]],
                       0, K - 1)],
              1, p)

\* A variant of ForecastTIdx that starts at the last period of the history.
ForecastTIdxFromLast(T, step) == T + step

\* The time index of forecast step `step` after a history of T rows.
ForecastTIdx(T, step) == T + step + 1

RECURSIVE ForecastLoop(_, _, _, _, _, _)
\* The step loop: out after steps step..steps-1 have been written.
ForecastLoop(rf, out, step, steps, T, K) ==
    IF step >= steps THEN out
    ELSE LET row == rf.Model.Lags + step
             tIdx == ForecastTIdx(T, step)
             vals == [eq \in 0..(K - 1) |->
                        ForecastDet(rf, eq, tIdx)
                        + ForecastLagged(rf, out, row, eq, K)]
         IN  ForecastLoop(rf, [out EXCEPT ![row] = vals], step + 1, steps, T, K)

\* out.Slice(p, totalRows, 0, K), copied.
ForecastSlice(out, p, steps, K) ==
    [rows |-> steps, cols |-> K,
     data |-> [s \in 0..(steps - 1) |-> [k \in 0..(K - 1) |-> out[p + s][k]]]]

Forecast(rf, yHist, steps) ==
    IF rf = NIL \/ Len(rf.A) = 0 THEN Err("VAR model not estimated")
    ELSE IF steps <= 0 THEN Err("steps must be > 0")
    ELSE IF rf.Model.Lags <= 0 THEN Err("lags must be > 0 to forecast")
    ELSE IF yHist.rows < rf.Model.Lags THEN Err("need at least p rows in yHist")
    ELSE IF ~ForecastInRange(rf, yHist.cols) THEN Panic
    ELSE LET p == rf.Model.Lags
             K == yHist.cols
             out == ForecastLoop(rf, ForecastSeed(yHist, p, steps), 0, steps,
                                 yHist.rows, K)
         IN  Ok(ForecastSlice(out, p, steps, K))

\* --------------------------------------------------------------------- IRF

\* The integer square root of n >= 0.
ISqrt(n) == CHOOSE r \in 0..n : r * r <= n /\ (r + 1) * (r + 1) > n

\* mat.Cholesky.Factorize followed by LTo, column by column (LAPACK potrf):
\* the pivot of column j is S[j][j] minus the squares already placed in row j;
\* the factorization fails at the first pivot that is not positive.  L holds
\* columns 0..j-1 on entry.  The covariances of the model have exact integer
\* factors (see Covariances), so the square root and the division are exact.
CholPivot(S, L, j) ==
    S.data[j][j] - SumTo([k \in 0..(j - 1) |-> L[j][k] * L[j][k]], 0, j - 1)

CholBelow(S, L, i, j) ==
    (S.data[i][j] - SumTo([k \in 0..(j - 1) |-> L[i][k] * L[j][k]], 0, j - 1))
        \div ISqrt(CholPivot(S, L, j))

RECURSIVE CholLoop(_, _, _)
CholLoop(S, L, j) ==
    IF j >= S.rows THEN [ok |-> TRUE, L |-> L]
    ELSE IF CholPivot(S, L, j) <= 0 THEN [ok |-> FALSE, L |-> L]
    ELSE CholLoop(S,
                  [i \in 0..(S.rows - 1) |->
                     [k \in 0..(S.rows - 1) |->
                        IF k # j THEN L[i][k]
                        ELSE IF i < j THEN 0
                        ELSE IF i = j THEN ISqrt(CholPivot(S, L, j))
                        ELSE CholBelow(S, L, i, j)]],
                  j + 1)

Cholesky(S) == CholLoop(S, ZeroDense(S.rows, S.rows).data, 0)

\* The unit impulse: 1 at shockIndex, 0 elsewhere.
UnitShock(K, shockIndex) == [i \in 0..(K - 1) |-> IF i = shockIndex THEN 1 ELSE 0]

\* A variant of IRFShock that reads row shockIndex of L instead of its column.
IRFShockRow(rf, K, shockIndex) ==
    IF rf.SigmaU # NIL
    THEN IF Cholesky(rf.SigmaU).ok
         THEN [i \in 0..(K - 1) |-> Cholesky(rf.SigmaU).L[shockIndex][i]]
         ELSE UnitShock(K, shockIndex)
    ELSE UnitShock(K, shockIndex)

\* The shock vector of IRF: column shockIndex of L, or the unit impulse when
\* SigmaU is nil or its factorization fails.
IRFShock(rf, K, shockIndex) ==
    IF rf.SigmaU # NIL
    THEN IF Cholesky(rf.SigmaU).ok
         THEN [i \in 0..(K - 1) |-> Cholesky(rf.SigmaU).L[i][shockIndex]]
         ELSE UnitShock(K, shockIndex)
    ELSE UnitShock(K, shockIndex)

Identity(K) ==
    Dense(K, K,
          [i \in 0..(K - 1) |-> [j \in 0..(K - 1) |-> IF i = j THEN 1 ELSE 0]])

\* mat.Dense.Mul and Add.
MatMul(A, B) ==
    Dense(A.rows, B.cols,
          [i \in 0..(A.rows - 1) |-> [j \in 0..(B.cols - 1) |->
                 SumTo([k \in 0..(A.cols - 1) |-> A.data[i][k] * B.data[k][j]],
                       0, A.cols - 1)]])

MatAdd(A, B) ==
    Dense(A.rows, A.cols,
          [i \in 0..(A.rows - 1) |-> [j \in 0..(A.cols - 1) |->
                 A.data[i][j] + B.data[i][j]]])

\* maxLag of the Psi loop at horizon h: p, or h when h < p.
IRFMaxLag(p, h) == IF h < p THEN h ELSE p

RECURSIVE IRFSumLags(_, _, _, _, _)
\* M after the inner loop has added A_j * Psi[h-j] for j = j..maxLag.
IRFSumLags(rf, Psi, M, h, j) ==
    IF j > IRFMaxLag(rf.Model.Lags, h) THEN M
    ELSE IRFSumLags(rf, Psi, MatAdd(M, MatMul(rf.A[j], Psi[h - j])), h, j + 1)

RECURSIVE IRFPsiLoop(_, _, _, _, _)
\* The slice Psi after the outer loop has filled entries h..horizon-1.
IRFPsiLoop(rf, Psi, K, h, horizon) ==
    IF h >= horizon THEN Psi
    ELSE IRFPsiLoop(rf,
                    [Psi EXCEPT ![h] = IRFSumLags(rf, Psi, ZeroDense(K, K), h, 1)],
                    K, h + 1, horizon)

\* Psi as allocated: horizon nil entries, then Psi[0] = I_K.
IRFPsiInit(K, horizon) ==
    [h \in 0..(horizon - 1) |-> IF h = 0 THEN Identity(K) ELSE NIL]

\* True when every rf.A[j-1] the Psi loop reads exists.
IRFInRange(rf, horizon) ==
    \A h \in 1..(horizon - 1) :
        \A j \in 1..IRFMaxLag(rf.Model.Lags, h) : j - 1 < Len(rf.A)

\* A variant of IRFRespond that multiplies by the transpose of Psi[h].
IRFRespondTransposed(Psi, shock, K, horizon) ==
    [rows |-> horizon, cols |-> K,
     data |-> [h \in 0..(horizon - 1) |-> [i \in 0..(K - 1) |->
                 SumTo([j \in 0..(K - 1) |-> Psi[h].data[j][i] * shock[j]],
                       0, K - 1)]]]

\* irf[h][i] = (Psi[h] * shockVec)[i].
IRFRespond(Psi, shock, K, horizon) ==
    [rows |-> horizon, cols |-> K,
     data |-> [h \in 0..(horizon - 1) |-> [i \in 0..(K - 1) |->
                 SumTo([j \in 0..(K - 1) |-> Psi[h].data[i][j] * shock[j]],
                       0, K - 1)]]]

IRF(rf, horizon, shockIndex) ==
    IF rf = NIL \/ Len(rf.A) = 0 THEN Err("VAR model not estimated")
    ELSE IF horizon <= 0 THEN Err("horizon must be > 0")
    ELSE IF rf.Model.Lags <= 0 THEN Err("lags must be > 0 to IRF")
    ELSE IF shockIndex < 0 \/ shockIndex >= rf.A[1].rows
         THEN Err("shockIndex must be between 0 and K-1")
    ELSE IF ~IRFInRange(rf, horizon) THEN Panic
    ELSE LET K == rf.A[1].rows
             shock == IRFShock(rf, K, shockIndex)
             Psi == IRFPsiLoop(rf, IRFPsiInit(K, horizon), K, 1, horizon)
         IN  Ok(IRFRespond(Psi, shock, K, horizon))

\* ---------------------------------------------------------------- Estimate

Transpose(M) ==
    Dense(M.cols, M.rows,
          [i \in 0..(M.cols - 1) |-> [j \in 0..(M.rows - 1) |-> M.data[j][i]]])

Scale(M, a) ==
    Dense(M.rows, M.cols,
          [i \in 0..(M.rows - 1) |-> [j \in 0..(M.cols - 1) |-> a * M.data[i][j]]])

Trace(M) == SumTo([i \in 0..(M.rows - 1) |-> M.data[i][i]], 0, M.rows - 1)

Abs(a) == IF a < 0 THEN -a ELSE a

\* Response matrix Yreg: row t is observation row t + p.
EstimateYreg(Y, p) ==
    Dense(Y.rows - p, Y.cols,
          [t \in 0..(Y.rows - p - 1) |-> [k \in 0..(Y.cols - 1) |->
                 Y.data[t + p][k]]])

\* srcRow: the observation row that lag j of design row t reads.
EstimateSrcRow(t, p, j) == t + p - j

\* A variant of EstimateLagCols that lays the lag blocks out from the oldest
\* lag p down to lag j.
EstimateLagColsOldestFirst(Y, t, p, j) ==
    [c \in 1..((p - j + 1) * Y.cols) |->
        Y.data[EstimateSrcRow(t, p, p - ((c - 1) \div Y.cols))][(c - 1) % Y.cols]]

RECURSIVE EstimateLagCols(_, _, _, _)
\* The entries the lag loop writes into row t from lag j on, in col order.
EstimateLagCols(Y, t, p, j) ==
    IF j > p THEN <<>>
    ELSE [k \in 1..Y.cols |-> Y.data[EstimateSrcRow(t, p, j)][k - 1]]
         \o EstimateLagCols(Y, t, p, j + 1)

\* Row t of X in the order the fill loop advances col: the constant, the
\* trend's timeIndex, then the lag blocks.
EstimateXRow(Y, spec, t) ==
    (IF hasConst(spec) THEN <<1>> ELSE <<>>)
    \o (IF hasTrend(spec) THEN <<t + spec.Lags + 1>> ELSE <<>>)
    \o EstimateLagCols(Y, t, spec.Lags, 1)

\* The design matrix X: Treg rows, m = detCols + p * K columns.
EstimateX(Y, spec) ==
    Dense(Y.rows - spec.Lags, detCols(spec) + spec.Lags * Y.cols,
          [t \in 0..(Y.rows - spec.Lags - 1) |->
                 [c \in 0..(detCols(spec) + spec.Lags * Y.cols - 1) |->
                    EstimateXRow(Y, spec, t)[c + 1]]])

RECURSIVE CharPoly(_, _)
\* Faddeev-LeVerrier on the symmetric matrix G: CharPoly(G, k) is the pair
\* (M_k, c_k) with M_1 = I, M_(k+1) = G M_k + c_k I and c_k = -tr(G M_k) / k,
\* so that det(x I - G) = x^m + c_1 x^(m-1) + ... + c_m.  The rank of G is the
\* largest k with c_k # 0, G^-1 = -M_m / c_m when c_m # 0, and the
\* pseudoinverse of X is -M_r X' / c_r for G = X'X of rank r (Decell).
CharPoly(G, k) ==
    IF k <= 1 THEN [M |-> Identity(G.rows), c |-> -Trace(G)]
    ELSE LET prev == CharPoly(G, k - 1)
             M == MatAdd(MatMul(G, prev.M), Scale(Identity(G.rows), prev.c))
         IN  [M |-> M, c |-> -(Trace(MatMul(G, M)) \div k)]

\* xtxInv.Inverse(&xtx): an error exactly when X'X is singular; otherwise the
\* inverse, as an integer matrix num over the positive integer den.
Inverse(G) ==
    LET last == CharPoly(G, G.rows)
    IN  [err |-> last.c = 0,
         num |-> Scale(last.M, IF last.c < 0 THEN 1 ELSE -1),
         den |-> Abs(last.c)]

\* svd.Rank(1e-12): the number of singular values of X above the tolerance,
\* which for the integer matrices of the model is the rank of X.
Rank(X) ==
    LET G == MatMul(Transpose(X), X)
        nz == {k \in 1..G.rows : CharPoly(G, k).c # 0}
    IN  IF nz = {} THEN 0 ELSE CHOOSE k \in nz : \A l \in nz : l <= k

\* svd.SolveTo(&B, Yreg, rank): the minimum-norm least-squares solution of
\* X B = Yreg from the rank largest singular values, num over den.
SolveTo(X, Yreg, rank) ==
    LET G == MatMul(Transpose(X), X)
        cp == CharPoly(G, rank)
    IN  [num |-> MatMul(Scale(cp.M, IF cp.c < 0 THEN 1 ELSE -1),
                        MatMul(Transpose(X), Yreg)),
         den |-> Abs(cp.c)]

\* A solve stage that never takes the fallback.
EstimatePathNoFallback(X) == "inverse"

\* The branch of the solve stage: "inverse" when xtxError is nil, "svd"
\* otherwise.
EstimatePath(X) ==
    IF ~Inverse(MatMul(Transpose(X), X)).err THEN "inverse" ELSE "svd"

\* The coefficient matrix B (m x K) the solve stage leaves, num over den.
EstimateB(X, Yreg) ==
    IF EstimatePath(X) = "inverse"
    THEN [num |-> MatMul(Inverse(MatMul(Transpose(X), X)).num,
                         MatMul(Transpose(X), Yreg)),
          den |-> Inverse(MatMul(Transpose(X), X)).den]
    ELSE IF Rank(X) = 0
         THEN [num |-> ZeroDense(X.cols, Yreg.cols), den |-> 1]
         ELSE SolveTo(X, Yreg, Rank(X))

\* A variant of EstimateC that allocates C even without deterministic columns.
EstimateCAlways(B, spec, K) ==
    Dense(K, detCols(spec),
          [k \in 0..(K - 1) |-> [d \in 0..(detCols(spec) - 1) |-> B.data[d][k]]])

\* C: nil without deterministic columns, else K x detCols with
\* C[k][d] = B[d][k].
EstimateC(B, spec, K) ==
    IF detCols(spec) > 0
    THEN [rows |-> K, cols |-> detCols(spec),
          data |-> [k \in 0..(K - 1) |-> [d \in 0..(detCols(spec) - 1) |->
                      B.data[d][k]]]]
    ELSE NIL

\* The start row in B of the block of lag matrix A[j] (0-based j).
EstimateRowOffset(spec, j, K) == detCols(spec) + j * K

\* A variant of EstimateA that copies each block of B without transposing it.
EstimateANotTransposed(B, spec, K) ==
    [j \in 1..spec.Lags |->
        [rows |-> K, cols |-> K,
         data |-> [eq \in 0..(K - 1) |-> [colVar \in 0..(K - 1) |->
                     B.data[EstimateRowOffset(spec, j - 1, K) + eq][colVar]]]]]

\* A: p matrices, A[j][eq][colVar] = B[rowOffset + colVar][eq].
EstimateA(B, spec, K) ==
    [j \in 1..spec.Lags |->
        [rows |-> K, cols |-> K,
         data |-> [eq \in 0..(K - 1) |-> [colVar \in 0..(K - 1) |->
                     B.data[EstimateRowOffset(spec, j - 1, K) + colVar][eq]]]]]

\* A variant of EstimateDf that replaces a non-positive divisor by 1.
EstimateDfMax(Treg, m) == IF Treg - m <= 0 THEN 1 ELSE Treg - m

\* A variant of EstimateDf without the fallback.
EstimateDfNoFallback(Treg, m) == Treg - m

\* The divisor of the residual covariance.
EstimateDf(Treg, m) == IF Treg - m <= 0 THEN Treg ELSE Treg - m

\* U = Yreg - X B, with B = Bnum / den: the numerators of U over den.
EstimateU(X, Yreg, B) ==
    MatAdd(Scale(Yreg, B.den), Scale(MatMul(X, B.num), -1))

\* A variant of EstimatePrecheck that lets exogenous variables through.
EstimatePrecheckNoExo(ts, spec) ==
    IF ts = NIL \/ ts.Y = NIL THEN "time series data not provided"
    ELSE IF spec.Lags <= 0 THEN "lags must be > 0"
    ELSE IF ts.Y.rows <= spec.Lags THEN "need at least p+1 observations"
    ELSE NoErr

\* The checks Estimate makes before it builds anything: the error it returns,
\* or NoErr.
EstimatePrecheck(ts, spec) ==
    IF ts = NIL \/ ts.Y = NIL THEN "time series data not provided"
    ELSE IF spec.Lags <= 0 THEN "lags must be > 0"
    ELSE IF ts.Y.rows <= spec.Lags THEN "need at least p+1 observations"
    ELSE IF spec.HasExogenous THEN "exogenous variables not supported yet"
    ELSE NoErr

\* The Estimate call.  svdOk is what svd.Factorize reports when it is called.
\* On success the returned model holds the numerators of A and C over the
\* common denominator `den`, and the numerators of SigmaU over `sigmaDen`.
Estimate(ts, spec, svdOk) ==
    IF EstimatePrecheck(ts, spec) # NoErr THEN Err(EstimatePrecheck(ts, spec))
    ELSE LET K == ts.Y.cols
             Treg == ts.Y.rows - spec.Lags
             Yreg == EstimateYreg(ts.Y, spec.Lags)
             X == EstimateX(ts.Y, spec)
         IN  IF EstimatePath(X) = "svd" /\ ~svdOk
             THEN Err("OLS failed: X'X singular and SVD factorization failed")
             ELSE LET B == EstimateB(X, Yreg)
                      U == EstimateU(X, Yreg, B)
                  IN  [kind |-> "ok",
                       val |-> ReducedFormVAR(spec, EstimateA(B.num, spec, K),
                                              EstimateC(B.num, spec, K),
                                              MatMul(Transpose(U), U)),
                       err |-> NoErr,
                       den |-> B.den,
                       sigmaDen |-> B.den * B.den * EstimateDf(Treg, X.cols)]

\* ---------------------------------------------------------- RunIRFAnalysis

\* series: element h is irfMat.At(h, varIndex).
RunIRFSeries(irfMat, varIndex, horizon) ==
    [h \in 0..(horizon - 1) |-> irfMat.data[h][varIndex]]

RECURSIVE RunIRFLoop(_, _, _, _, _, _)
\* The loop over shockIdx: `results` holds the entries of the shocks before
\* shockIdx; the first failing IRF call ends the loop with its error.
RunIRFLoop(rf, varIndex, horizon, K, results, shockIdx) ==
    IF shockIdx >= K THEN Ok(results)
    ELSE LET r == IRF(rf, horizon, shockIdx)
         IN  IF r.kind = "panic" THEN Panic
             ELSE IF r.err # NoErr THEN Err("IRF failed for shockIdx")
             ELSE RunIRFLoop(rf, varIndex, horizon, K,
                             results @@ (shockIdx :>
                                 RunIRFSeries(r.val, varIndex, horizon)),
                             shockIdx + 1)

\* make(map[int][]float64): the empty map.
EmptyMap == [s \in {} |-> <<>>]

RunIRFAnalysis(rf, varIndex, horizon) ==
    IF rf = NIL \/ Len(rf.A) = 0 THEN Err("VAR model not estimated")
    ELSE IF varIndex < 0 \/ varIndex >= rf.A[1].rows
         THEN Err("varIndex must be between 0 and K-1")
    ELSE RunIRFLoop(rf, varIndex, horizon, rf.A[1].rows, EmptyMap, 0)

\* -------------------------------------------------------- GrangerCausality

\* yEffect: element t is ts.Y.At(t+p, effectIdx), as a Treg x 1 matrix.
GrangerYEffect(Y, p, effectIdx) ==
    Dense(Y.rows - p, 1,
          [t \in 0..(Y.rows - p - 1) |-> [c \in {0} |-> Y.data[t + p][effectIdx]]])

RECURSIVE GrangerLagCols(_, _, _, _, _)
\* The entries the lag loops write into row t from lag j on, in col order;
\* variable `skip` is left out (-1: none is).
GrangerLagCols(Y, t, p, j, skip) ==
    IF j > p THEN <<>>
    ELSE LET kept == [k \in 1..Y.cols |-> Y.data[t + p - j][k - 1]]
             block == IF skip < 0 THEN kept
                      ELSE SubSeq(kept, 1, skip) \o SubSeq(kept, skip + 2, Y.cols)
         IN  block \o GrangerLagCols(Y, t, p, j + 1, skip)

\* A variant of GrangerXRow whose trend counts the regression rows from 1.
GrangerXRowTrendFromOne(Y, spec, t, skip) ==
    (IF hasConst(spec) THEN <<1>> ELSE <<>>)
    \o (IF hasTrend(spec) THEN <<t + 1>> ELSE <<>>)
    \o GrangerLagCols(Y, t, spec.Lags, 1, skip)

\* Row t of a design matrix of GrangerCausality: the constant, the trend's
\* timeIndex, then the lag blocks.
GrangerXRow(Y, spec, t, skip) ==
    (IF hasConst(spec) THEN <<1>> ELSE <<>>)
    \o (IF hasTrend(spec) THEN <<t + spec.Lags + 1>> ELSE <<>>)
    \o GrangerLagCols(Y, t, spec.Lags, 1, skip)

\* XUnrestricted: Treg x (detCols + p * K).
GrangerXUnrestricted(Y, spec) ==
    Dense(Y.rows - spec.Lags, detCols(spec) + spec.Lags * Y.cols,
          [t \in 0..(Y.rows - spec.Lags - 1) |->
                 [c \in 0..(detCols(spec) + spec.Lags * Y.cols - 1) |->
                    GrangerXRow(Y, spec, t, -1)[c + 1]]])

\* A variant of GrangerXRestricted that skips the lags of the variable after
\* causeIdx.
GrangerXRestrictedSkipsNext(Y, spec, causeIdx) ==
    Dense(Y.rows - spec.Lags, detCols(spec) + spec.Lags * (Y.cols - 1),
          [t \in 0..(Y.rows - spec.Lags - 1) |->
                 [c \in 0..(detCols(spec) + spec.Lags * (Y.cols - 1) - 1) |->
                    GrangerXRow(Y, spec, t, (causeIdx + 1) % Y.cols)[c + 1]]])

\* XRestricted: Treg x (detCols + p * (K - 1)), the lags of causeIdx skipped.
GrangerXRestricted(Y, spec, causeIdx) ==
    Dense(Y.rows - spec.Lags, detCols(spec) + spec.Lags * (Y.cols - 1),
          [t \in 0..(Y.rows - spec.Lags - 1) |->
                 [c \in 0..(detCols(spec) + spec.Lags * (Y.cols - 1) - 1) |->
                    GrangerXRow(Y, spec, t, causeIdx)[c + 1]]])

\* SolveVec(X, y) returns an error exactly when X has not full rank (the LU,
\* QR or LQ factorization it uses reports a singular factor): X'X is singular
\* when X has at least as many rows as columns, X X' is otherwise.
SolveVecFails(X) ==
    IF X.rows >= X.cols THEN Inverse(MatMul(Transpose(X), X)).err
    ELSE Inverse(MatMul(X, Transpose(X))).err

\* The residual sum of squares of the least-squares fit of y on X, X of full
\* column rank with more rows than columns: y'y - y'X (X'X)^-1 X'y as the
\* integer num over the positive integer den.
GrangerRSS(X, y) ==
    LET inv == Inverse(MatMul(Transpose(X), X))
        xty == MatMul(Transpose(X), y)
    IN  [num |-> inv.den * MatMul(Transpose(y), y).data[0][0]
                 - MatMul(Transpose(xty), MatMul(inv.num, xty)).data[0][0],
         den |-> inv.den]

\* A float64 that is an exact fraction, NaN or +Inf.
Finite(n, d) == [kind |-> "finite", num |-> n, den |-> d]

NaN == [kind |-> "nan", num |-> 0, den |-> 0]

PosInf == [kind |-> "inf", num |-> 1, den |-> 0]

\* fStatistic = ((rssR - rssU) / q) / (rssU / dof) in float64 arithmetic:
\* x / 0 is +Inf for x > 0 and NaN for x = 0.
GrangerFStatistic(rssR, rssU, q, dof) ==
    LET diff == rssR.num * rssU.den - rssU.num * rssR.den
    IN  IF q = 0 THEN NaN
        ELSE IF rssU.num = 0 THEN (IF diff = 0 THEN NaN ELSE PosInf)
        ELSE Finite(diff * dof, rssR.den * q * rssU.num)

\* The values fDist.CDF may return for a positive finite argument, in
\* thousandths; the library's rounding may leave the unit interval.
CdfOutcomes == {-1, 0, 950, 951, 1001}

\* 1.0 - fDist.CDF(fStatistic) in thousandths.  The CDF of 0 is 0; for a
\* positive argument it is the value cdf the library returns.
GrangerRawPValue(F, cdf) ==
    IF F.kind = "finite" /\ F.num = 0 THEN 1000 ELSE 1000 - cdf

\* A variant of GrangerEdge that keeps the p-value as computed.
GrangerEdgeNoClamp(F, pValue) ==
    IF F.kind # "finite" THEN [F |-> Finite(0, 1), p |-> 1000]
    ELSE [F |-> F, p |-> pValue]

\* A variant of GrangerEdge that lets a NaN or infinite statistic through.
GrangerEdgeNoReset(F, pValue) ==
    [F |-> F, p |-> IF pValue < 0 THEN 0
                    ELSE IF pValue > 1000 THEN 1000 ELSE pValue]

\* The edge cases: a NaN or infinite statistic becomes 0 with p-value 1, and
\* the p-value is clamped into [0, 1].
GrangerEdge(F, pValue) ==
    IF F.kind # "finite" THEN [F |-> Finite(0, 1), p |-> 1000]
    ELSE [F |-> F, p |-> IF pValue < 0 THEN 0
                         ELSE IF pValue > 1000 THEN 1000 ELSE pValue]

\* The significance threshold 0.05 in thousandths.
Threshold == 50

GrangerCausalityResult(ts, causeIdx, effectIdx, e, p) ==
    [CauseVar |-> ts.VarNames[causeIdx + 1],
     EffectVar |-> ts.VarNames[effectIdx + 1],
     FStatistic |-> e.F,
     PValue |-> e.p,
     Lags |-> p,
     Significant |-> e.p < Threshold]

\* A variant of GrangerLags that takes the lag order from the lag matrices.
GrangerLagsFromA(rf) == Len(rf.A)

\* p of GrangerCausality.
GrangerLags(rf) == rf.Model.Lags

\* A variant of GrangerIndexCheck that lets a variable be tested against itself.
GrangerIndexCheckNoSame(K, causeIdx, effectIdx) ==
    IF causeIdx < 0 \/ causeIdx >= K THEN "causeIdx out of range"
    ELSE IF effectIdx < 0 \/ effectIdx >= K THEN "effectIdx out of range"
    ELSE NoErr

\* The index checks of GrangerCausality: the error they return, or NoErr.
GrangerIndexCheck(K, causeIdx, effectIdx) ==
    IF causeIdx < 0 \/ causeIdx >= K THEN "causeIdx out of range"
    ELSE IF effectIdx < 0 \/ effectIdx >= K THEN "effectIdx out of range"
    ELSE IF causeIdx = effectIdx THEN "causeIdx and effectIdx cannot be the same"
    ELSE NoErr

\* rf.GrangerCausality(ts, causeIdx, effectIdx); cdf is what fDist.CDF
\* returns when it is called with a positive finite statistic.
GrangerCausality(rf, ts, causeIdx, effectIdx, cdf) ==
    IF ts = NIL THEN Err("time series data not provided")
    ELSE IF ts.Y = NIL THEN Err("time series data not provided")
    ELSE IF rf = NIL THEN Panic
    ELSE IF GrangerIndexCheck(ts.Y.cols, causeIdx, effectIdx) # NoErr
         THEN Err(GrangerIndexCheck(ts.Y.cols, causeIdx, effectIdx))
    ELSE LET p == GrangerLags(rf)
             K == ts.Y.cols
             spec == ModelSpec(p, rf.Model.Deterministic, rf.Model.HasExogenous)
             Treg == ts.Y.rows - p
             mUnrestricted == detCols(spec) + p * K
             mRestricted == detCols(spec) + p * (K - 1)
             dof == Treg - mUnrestricted
         IN  IF Treg <= 0 \/ mUnrestricted <= 0 THEN Panic
             ELSE IF SolveVecFails(GrangerXUnrestricted(ts.Y, spec))
                  THEN Err("failed to solve unrestricted model")
             ELSE IF mRestricted <= 0 THEN Panic
             ELSE IF SolveVecFails(GrangerXRestricted(ts.Y, spec, causeIdx))
                  THEN Err("failed to solve restricted model")
             ELSE IF dof <= 0 THEN Err("insufficient degrees of freedom")
             ELSE IF causeIdx >= Len(ts.VarNames) \/ effectIdx >= Len(ts.VarNames)
                  THEN Panic
             ELSE LET y == GrangerYEffect(ts.Y, p, effectIdx)
                      rssU == GrangerRSS(GrangerXUnrestricted(ts.Y, spec), y)
                      rssR == GrangerRSS(GrangerXRestricted(ts.Y, spec, causeIdx), y)
                      F == GrangerFStatistic(rssR, rssU, p, dof)
                      e == GrangerEdge(F, GrangerRawPValue(F, cdf))
                  IN  Ok(GrangerCausalityResult(ts, causeIdx, effectIdx, e, p))

\* -------------------------------------------------- GrangerCausalityMatrix

\* What fDist.CDF returns in the test of pair (i, j): cdf[1] for i < j, cdf[2]
\* for i > j.
CdfOfPair(cdf, i, j) == IF i < j THEN cdf[1] ELSE cdf[2]

RECURSIVE GrangerMatrixLoop(_, _, _, _, _)
\* The pairwise loops in row-major order from pair number n = i * K + j on;
\* results holds the entries written so far, nil elsewhere.  The first pair
\* test that returns an error ends the loops with an error that names both
\* variables.
GrangerMatrixLoop(rf, ts, cdf, results, n) ==
    LET K == ts.Y.cols
        i == n \div K
        j == n % K
    IN  IF n >= K * K THEN Ok(results)
        ELSE IF i = j THEN GrangerMatrixLoop(rf, ts, cdf, results, n + 1)
        ELSE LET r == GrangerCausality(rf, ts, i, j, CdfOfPair(cdf, i, j))
             IN  IF r.kind = "panic" THEN Panic
                 ELSE IF r.err # NoErr
                      THEN (IF i >= Len(ts.VarNames) \/ j >= Len(ts.VarNames)
                            THEN Panic ELSE Err("error testing pair"))
                 ELSE GrangerMatrixLoop(rf, ts, cdf,
                                        [results EXCEPT ![i][j] = r.val], n + 1)

GrangerCausalityMatrix(rf, ts, cdf) ==
    IF ts = NIL THEN Err("time series data not provided")
    ELSE IF ts.Y = NIL THEN Err("time series data not provided")
    ELSE GrangerMatrixLoop(rf, ts, cdf,
                           [i \in 0..(ts.Y.cols - 1) |->
                               [j \in 0..(ts.Y.cols - 1) |-> NIL]],
                           0)

\* -------------------------------------------------- OutputIRFAnalysisToCSV

\* fmt.Sprintf("%d", n).
FormatD(n) == ToString(n)

\* fmt.Sprintf("%f", v) of an integral float64: six decimals.
FormatF(v) == ToString(v) \o ".000000"

\* The orders in which one `range` over a map with key set S may yield its
\* keys: Go leaves the order unspecified and varies it from one range
\* statement to the next.
RangeOrders(S) ==
    {o \in [1..Cardinality(S) -> S] : \A a, b \in DOMAIN o : o[a] = o[b] => a = b}

\* The name in the header cell of shock shockIdx.
IRFCsvVarName(analysis, varNames, shockIdx) ==
    IF Len(varNames) = Cardinality(DOMAIN analysis) THEN varNames[shockIdx + 1]
    ELSE "Var" \o FormatD(shockIdx + 1)

\* The header record: "Horizon", then one cell per key in the order the
\* header loop's range yields them.
IRFCsvHeader(analysis, varNames, order) ==
    <<"Horizon">> \o
    [c \in 1..Len(order) |->
        "Shock_in_" \o IRFCsvVarName(analysis, varNames, order[c])]

\* horizon: the length of the first series a range yields, 0 for an empty map.
IRFCsvHorizon(analysis, order) ==
    IF order = <<>> THEN 0 ELSE Cardinality(DOMAIN analysis[order[1]])

\* The record of horizon step h: h, then one cell per key in the order this
\* row's range yields them.
IRFCsvRecord(analysis, h, order) ==
    <<FormatD(h)>> \o [c \in 1..Len(order) |-> FormatF(analysis[order[c]][h])]

\* The call: ret is what it returns, lines the records it wrote, NIL when the
\* file could not be created.  headerOrder and rowOrders[h] are the orders
\* of the range in the header loop and in the row of step h.
OutputIRFAnalysisToCSV(analysis, varNames, createOk, headerOrder, rowOrders) ==
    IF ~createOk THEN [ret |-> Err("os.Create failed"), lines |-> NIL]
    ELSE [ret |-> Ok(NIL),
          lines |-> <<IRFCsvHeader(analysis, varNames, headerOrder)>> \o
                    [r \in 1..IRFCsvHorizon(analysis, headerOrder) |->
                        IRFCsvRecord(analysis, r - 1, rowOrders[r - 1])]]

\* -------------------------------------------------------- concurrent calls

\* The checks at the head of Forecast: the error returned, or NoErr.
ForecastEntry(rf, yHist, steps) ==
    IF rf = NIL \/ Len(rf.A) = 0 THEN "VAR model not estimated"
    ELSE IF steps <= 0 THEN "steps must be > 0"
    ELSE IF rf.Model.Lags <= 0 THEN "lags must be > 0 to forecast"
    ELSE IF yHist.rows < rf.Model.Lags THEN "need at least p rows in yHist"
    ELSE NoErr

\* The locals of Forecast when the step loop is entered: p, T, K and the
\* seeded buffer `out`, which the call has allocated itself.
ForecastLocals(rf, yHist, steps) ==
    [p |-> rf.Model.Lags, T |-> yHist.rows, K |-> yHist.cols,
     out |-> ForecastSeed(yHist, rf.Model.Lags, steps)]

\* A variant of ForecastStepWrite in which `out` shares its storage with the
\* history: the row written by out.Set also replaces the last row of ts.Y.
ForecastStepWriteShared(m, buf, step) ==
    LET out == ForecastLoop(m.rf, buf.out, step, step + 1, buf.T, buf.K)
    IN  [mem |-> [m EXCEPT !.ts.Y.data[buf.T - 1] = out[buf.p + step]],
         out |-> out]

\* What one iteration of the step loop writes: row p + step of the local
\* buffer `out` (out.Set); the shared objects are read and not written.
ForecastStepWrite(m, buf, step) ==
    [mem |-> m,
     out |-> ForecastLoop(m.rf, buf.out, step, step + 1, buf.T, buf.K)]

\* The checks at the head of IRF: the error returned, or NoErr.
IRFEntry(rf, horizon, shockIndex) ==
    IF rf = NIL \/ Len(rf.A) = 0 THEN "VAR model not estimated"
    ELSE IF horizon <= 0 THEN "horizon must be > 0"
    ELSE IF rf.Model.Lags <= 0 THEN "lags must be > 0 to IRF"
    ELSE IF shockIndex < 0 \/ shockIndex >= rf.A[1].rows
         THEN "shockIndex must be between 0 and K-1"
    ELSE NoErr

\* The locals of IRF when the Psi loop is entered: K, the shock vector and
\* the slice Psi with Psi[0] = I_K.
IRFLocals(rf, horizon, shockIndex) ==
    [K |-> rf.A[1].rows,
     shock |-> IRFShock(rf, rf.A[1].rows, shockIndex),
     Psi |-> IRFPsiInit(rf.A[1].rows, horizon)]

\* What one iteration of the Psi loop writes: the fresh matrix M, stored in
\* the local slice at Psi[h]; the lag matrices of the model are operands of
\* tmp.Mul and are not written.
IRFPsiWrite(m, buf, h) ==
    [mem |-> m, Psi |-> IRFPsiLoop(m.rf, buf.Psi, buf.K, h, h + 1)]

\* The checks at the head of RunIRFAnalysis: the error returned, or NoErr.
RunIRFEntry(rf, varIndex) ==
    IF rf = NIL \/ Len(rf.A) = 0 THEN "VAR model not estimated"
    ELSE IF varIndex < 0 \/ varIndex >= rf.A[1].rows
         THEN "varIndex must be between 0 and K-1"
    ELSE NoErr

\* ------------------------------------------------------------------ inputs

\* The models a caller builds by hand, as functions_test.go does: K variables,
\* n lag matrices, a Lags field that need not equal n, deterministic
\* coefficients present or absent.
LagMatrices(seed, n, K) == [k \in 1..n |-> GenDense(seed + k - 1, K, K)]

DetCoefficients(spec, K) ==
    {NIL} \cup (IF detCols(spec) = 0 THEN {}
                ELSE {GenDense(s, K, detCols(spec)) : s \in 1..MaxSeed})

SpecsOf(lags) ==
    {ModelSpec(l, d, FALSE) : l \in lags, d \in Deterministics}

ForecastModels ==
    {NIL} \cup
    UNION {{ReducedFormVAR(spec, LagMatrices(seed, n, K), C, NIL) :
              C \in DetCoefficients(spec, K)} :
            spec \in SpecsOf(0..(MaxP + 1)), seed \in 0..MaxSeed,
            n \in 0..MaxP, K \in 1..MaxK}

\* Histories of 1..MaxP+1 rows: Forecast reads the last p rows and the row
\* count.
Histories ==
    {GenDense(seed, T, K) : seed \in 0..MaxSeed, T \in 1..(MaxP + 1), K \in 1..MaxK}

\* The residual covariances of hand-built models: nil, and L0 * L0' for the
\* lower triangle L0 of a generated matrix.  With a positive diagonal of L0 the
\* covariance is positive definite and its Cholesky factor is L0 itself; with a
\* zero on the diagonal the factorization fails at that pivot.
LowerOf(M) ==
    [rows |-> M.rows, cols |-> M.cols,
     data |-> [i \in 0..(M.rows - 1) |-> [j \in 0..(M.cols - 1) |->
                 IF j <= i THEN M.data[i][j] ELSE 0]]]

Covariances(K) ==
    {NIL} \cup {MatMul(LowerOf(GenDense(s, K, K)), Transpose(LowerOf(GenDense(s, K, K)))) :
                  s \in 0..MaxSeedS}

IRFModels ==
    {NIL} \cup
    UNION {{ReducedFormVAR(ModelSpec(l, DetNone, FALSE), LagMatrices(seed, n, K), NIL, S) :
              S \in Covariances(K)} :
            l \in 0..(MaxP + 1), seed \in 0..MaxSeed, n \in 0..MaxP, K \in 1..MaxK}

\* The time series a caller passes: a nil pointer, a series without its
\* observation matrix, and generated T x K observation matrices.
TimeSeriesInputs ==
    {NIL, [Y |-> NIL]} \cup
    {[Y |-> GenDense(seed, T, K)] : seed \in 0..MaxSeed, T \in 1..MaxT, K \in 1..MaxK}

\* Variable names; a series of K variables has the first K of them.
Names == <<"a", "b", "c", "d">>

\* The series a caller passes to the Granger tests: a nil pointer, a series
\* without its observation matrix, and generated T x K observation matrices
\* with one variable name per column, as LoadCSVToTimeSeries builds them.
NamedSeries ==
    {NIL, [Y |-> NIL, VarNames |-> <<>>]} \cup
    {[Y |-> GenDense(seed, T, K), VarNames |-> SubSeq(Names, 1, K)] :
        seed \in 0..MaxSeedS, T \in 1..MaxT, K \in 1..MaxK}

\* The models the Granger tests are called on: nil, and models with one lag
\* matrix and a Lags field that need not be 1.
GrangerModels ==
    {NIL} \cup
    {ReducedFormVAR(ModelSpec(l, d, FALSE), LagMatrices(1, 1, 1), NIL, NIL) :
        l \in 1..MaxP, d \in Deterministics}

\* Goroutines that call the engine at the same time.
ThreadIds == {1, 2}

\* The fitted two-variable models the goroutines share: nil, models not yet
\* estimated (no lag matrix), and models with as many lag matrices as lags,
\* without deterministic terms or with a constant and a trend, with and
\* without a residual covariance.
SharedModels ==
    {NIL} \cup
    {ReducedFormVAR(ModelSpec(l, d, FALSE),
                    LagMatrices(1, IF fitted THEN l ELSE 0, 2),
                    IF d = DetNone THEN NIL ELSE GenDense(1, 2, 2), S) :
        l \in 1..MaxP, fitted \in BOOLEAN, d \in {DetNone, DetConstTrend},
        S \in {NIL, MatMul(LowerOf(GenDense(1, 2, 2)),
                           Transpose(LowerOf(GenDense(1, 2, 2))))}}

\* The two-variable series they share.
SharedSeries ==
    {[Y |-> GenDense(seed, MaxT, 2), VarNames |-> SubSeq(Names, 1, 2)] :
        seed \in 1..2}

\* The calls a goroutine makes on the shared model.
ThreadCalls ==
    {[op |-> "Forecast", steps |-> n] : n \in 0..MaxLoop}
    \cup {[op |-> "IRF", horizon |-> n + 1, shockIndex |-> i] :
            n \in 0..MaxLoop, i \in 0..1}
    \cup {[op |-> "RunIRFAnalysis", varIndex |-> 0, horizon |-> MaxLoop]}
    \cup {[op |-> "GrangerCausality", causeIdx |-> 0, effectIdx |-> 1, cdf |-> 951]}
    \cup {[op |-> "GrangerCausalityMatrix", cdf |-> <<951, 0>>]}

\* The steps of main after its arguments are read, in program order.
MainSteps ==
    <<"LoadCSVToTimeSeries", "Estimate", "Forecast", "IRF", "Summary",
      "OutputForecastsToCSV", "GrangerCausalityMatrix",
      "OutputGrangerMatrixToCSV", "RunIRFAnalysis", "OutputIRFAnalysisToCSV">>

\* The file an output step creates; the other steps create none.
MainFile(step) ==
    CASE step = "OutputForecastsToCSV" -> "forecast_results.csv"
      [] step = "OutputGrangerMatrixToCSV" -> "granger_results.csv"
      [] step = "OutputIRFAnalysisToCSV" -> "irf_results.csv"
      [] OTHER -> ""

\* The steps whose error main checks; Summary returns nothing.
MainCanFail == {MainSteps[i] : i \in 1..Len(MainSteps)} \ {"Summary"}

\* The country argument: the two supported ones and another.
Countries == {"Singapore", "Qatar", "Other"}

\* The mappings RunIRFAnalysis returns for K shocks over `horizon` steps:
\* one series of length horizon per shock index 0..K-1.
Analyses ==
    {[shockIdx \in 0..(K - 1) |->
         [h \in 0..(horizon - 1) |-> Entry(seed, shockIdx * horizon + h)]] :
        seed \in 0..MaxSeed, K \in 1..MaxK, horizon \in 1..MaxLoop}

\* ------------------------------------------------------------------ actions

Pending == [kind |-> "pending", val |-> NIL, err |-> NoErr]

\* One call made from one goroutine: no object is shared with another
\* goroutine and no file is written.
SingleCall == mem = NIL /\ threads = <<>> /\ files = <<>>

\* A caller has made one call, which has not returned yet.
InitEstimate ==
    /\ \E ts \in TimeSeriesInputs, l \in 0..MaxP, d \in Deterministics,
          x \in BOOLEAN, ok \in BOOLEAN :
          call = [op |-> "Estimate", ts |-> ts, spec |-> ModelSpec(l, d, x),
                  svdOk |-> ok]
    /\ ret = Pending
    /\ SingleCall

InitForecast ==
    /\ \E rf \in ForecastModels, yHist \in Histories, steps \in 0..MaxSteps :
          call = [op |-> "Forecast", rf |-> rf, yHist |-> yHist, steps |-> steps]
    /\ ret = Pending
    /\ SingleCall

InitIRF ==
    /\ \E rf \in IRFModels, h \in 0..MaxHorizon, s \in (-1)..MaxK :
          call = [op |-> "IRF", rf |-> rf, horizon |-> h, shockIndex |-> s]
    /\ ret = Pending
    /\ SingleCall

InitRunIRF ==
    /\ \E rf \in IRFModels, v \in (-1)..MaxK, h \in 0..MaxHorizon :
          call = [op |-> "RunIRFAnalysis", rf |-> rf, varIndex |-> v, horizon |-> h]
    /\ ret = Pending
    /\ SingleCall

InitGranger ==
    /\ \E rf \in GrangerModels, ts \in NamedSeries, i \in (-1)..MaxK,
          j \in (-1)..MaxK, c \in CdfOutcomes :
          call = [op |-> "GrangerCausality", rf |-> rf, ts |-> ts,
                  causeIdx |-> i, effectIdx |-> j, cdf |-> c]
    /\ ret = Pending
    /\ SingleCall

InitGrangerMatrix ==
    /\ \E rf \in GrangerModels, ts \in NamedSeries,
          c \in CdfOutcomes \X CdfOutcomes :
          call = [op |-> "GrangerCausalityMatrix", rf |-> rf, ts |-> ts, cdf |-> c]
    /\ ret = Pending
    /\ SingleCall

\* Two goroutines are about to call the engine on one fitted model and one
\* time series.
InitConcurrent ==
    /\ \E rf \in SharedModels, ts \in SharedSeries, c1 \in ThreadCalls,
          c2 \in ThreadCalls :
          /\ call = [op |-> "Concurrent", rf |-> rf, ts |-> ts]
          /\ mem = [rf |-> rf, ts |-> ts]
          /\ threads = [t \in ThreadIds |->
                          [call |-> IF t = 1 THEN c1 ELSE c2, pc |-> "start",
                           n |-> 0, buf |-> NIL, ret |-> Pending,
                           overlapped |-> FALSE]]
    /\ ret = Pending
    /\ files = <<>>

\* The command-line driver has been started.  failsAt is the first step that
\* returns an error in this run, "none" when every step succeeds.
InitMain ==
    /\ \E argc \in {1, 3}, country \in Countries,
          f \in MainCanFail \cup {"none"} :
          call = [op |-> "main", argc |-> argc, country |-> country,
                  failsAt |-> f]
    /\ ret = Pending
    /\ mem = NIL
    /\ threads = <<[pc |-> 0]>>
    /\ files = <<>>

\* A caller has called rf.OutputIRFAnalysisToCSV(path, analysis, varNames).
\* The environment decides whether the file can be created and in which
\* order each range over the mapping yields its keys.
InitOutputIRF ==
    /\ \E analysis \in Analyses, named \in BOOLEAN, ok \in BOOLEAN :
          \E ho \in RangeOrders(DOMAIN analysis),
             ro \in [DOMAIN analysis[0] ->
                        RangeOrders(DOMAIN analysis)] :
              call = [op |-> "OutputIRFAnalysisToCSV", analysis |-> analysis,
                      varNames |-> IF named
                                   THEN SubSeq(Names, 1, Cardinality(DOMAIN analysis))
                                   ELSE <<>>,
                      createOk |-> ok, headerOrder |-> ho, rowOrders |-> ro]
    /\ ret = Pending
    /\ SingleCall

Init ==
    \/ InitEstimate \/ InitForecast \/ InitIRF \/ InitRunIRF \/ InitGranger
    \/ InitGrangerMatrix \/ InitConcurrent \/ InitMain \/ InitOutputIRF

\* rf.Forecast(yHist, steps) runs and returns.
ForecastCall ==
    /\ call.op = "Forecast"
    /\ ret = Pending
    /\ ret' = Forecast(call.rf, call.yHist, call.steps)
    /\ UNCHANGED <<call, mem, threads, files>>

\* rf.IRF(horizon, shockIndex) runs and returns.
IRFCall ==
    /\ call.op = "IRF"
    /\ ret = Pending
    /\ ret' = IRF(call.rf, call.horizon, call.shockIndex)
    /\ UNCHANGED <<call, mem, threads, files>>

\* (&OLSEstimator{}).Estimate(ts, spec, opts) runs and returns.
EstimateCall ==
    /\ call.op = "Estimate"
    /\ ret = Pending
    /\ ret' = Estimate(call.ts, call.spec, call.svdOk)
    /\ UNCHANGED <<call, mem, threads, files>>

\* rf.RunIRFAnalysis(varIndex, horizon) runs and returns.
RunIRFCall ==
    /\ call.op = "RunIRFAnalysis"
    /\ ret = Pending
    /\ ret' = RunIRFAnalysis(call.rf, call.varIndex, call.horizon)
    /\ UNCHANGED <<call, mem, threads, files>>

\* rf.GrangerCausality(ts, causeIdx, effectIdx) runs and returns.
GrangerCall ==
    /\ call.op = "GrangerCausality"
    /\ ret = Pending
    /\ ret' = GrangerCausality(call.rf, call.ts, call.causeIdx, call.effectIdx,
                                call.cdf)
    /\ UNCHANGED <<call, mem, threads, files>>

\* rf.GrangerCausalityMatrix(ts) runs and returns.
GrangerMatrixCall ==
    /\ call.op = "GrangerCausalityMatrix"
    /\ ret = Pending
    /\ ret' = GrangerCausalityMatrix(call.rf, call.ts, call.cdf)
    /\ UNCHANGED <<call, mem, threads, files>>

\* True when another goroutine is inside a call: it has entered and has not
\* returned.
OtherRunning(t) == \E u \in ThreadIds \ {t} : threads[u].pc = "loop"

\* Goroutine t moves to state th, the shared objects to m.  `overlapped`
\* records that t ran while another goroutine was inside its call.
Advance(t, th, m) ==
    /\ threads' = [threads EXCEPT
                     ![t] = [th EXCEPT !.overlapped = @ \/ OtherRunning(t)]]
    /\ mem' = m
    /\ UNCHANGED <<call, ret, files>>

\* Goroutine t returns r from its call.
Return(t, r) ==
    Advance(t, [threads[t] EXCEPT !.pc = "done", !.ret = r], mem)

\* Goroutine t enters rf.Forecast(ts.Y, steps): the checks, then the buffer
\* `out` seeded with the last p rows of the history.
ForecastBegin(t) ==
    LET th == threads[t]
        e == ForecastEntry(mem.rf, mem.ts.Y, th.call.steps)
    IN  /\ call.op = "Concurrent"
        /\ th.call.op = "Forecast"
        /\ th.pc = "start"
        /\ IF e # NoErr THEN Return(t, Err(e))
           ELSE Advance(t, [th EXCEPT !.pc = "loop", !.n = 0,
                               !.buf = ForecastLocals(mem.rf, mem.ts.Y,
                                                      th.call.steps)],
                        mem)

\* One iteration of the step loop of Forecast in goroutine t.
ForecastStep(t) ==
    LET th == threads[t]
        w == ForecastStepWrite(mem, th.buf, th.n)
    IN  /\ call.op = "Concurrent"
        /\ th.call.op = "Forecast"
        /\ th.pc = "loop"
        /\ th.n < th.call.steps
        /\ IF ~ForecastInRange(mem.rf, th.buf.K) THEN Return(t, Panic)
           ELSE Advance(t, [th EXCEPT !.n = @ + 1, !.buf.out = w.out], w.mem)

\* Forecast returns a copy of the forecast rows of `out`.
ForecastReturn(t) ==
    LET th == threads[t]
    IN  /\ call.op = "Concurrent"
        /\ th.call.op = "Forecast"
        /\ th.pc = "loop"
        /\ th.n >= th.call.steps
        /\ Return(t, Ok(ForecastSlice(th.buf.out, th.buf.p, th.call.steps,
                                      th.buf.K)))

\* Goroutine t enters rf.IRF(horizon, shockIndex): the checks, the shock
\* vector from rf.SigmaU, and Psi[0].
IRFBegin(t) ==
    LET th == threads[t]
        e == IRFEntry(mem.rf, th.call.horizon, th.call.shockIndex)
    IN  /\ call.op = "Concurrent"
        /\ th.call.op = "IRF"
        /\ th.pc = "start"
        /\ IF e # NoErr THEN Return(t, Err(e))
           ELSE Advance(t, [th EXCEPT !.pc = "loop", !.n = 1,
                               !.buf = IRFLocals(mem.rf, th.call.horizon,
                                                 th.call.shockIndex)],
                        mem)

\* One iteration h = n of the Psi loop of IRF in goroutine t.
IRFPsiStep(t) ==
    LET th == threads[t]
        w == IRFPsiWrite(mem, th.buf, th.n)
    IN  /\ call.op = "Concurrent"
        /\ th.call.op = "IRF"
        /\ th.pc = "loop"
        /\ th.n < th.call.horizon
        /\ IF ~IRFInRange(mem.rf, th.n + 1) THEN Return(t, Panic)
           ELSE Advance(t, [th EXCEPT !.n = @ + 1, !.buf.Psi = w.Psi], w.mem)

\* IRF fills the fresh matrix irf from Psi and the shock and returns it.
IRFReturn(t) ==
    LET th == threads[t]
    IN  /\ call.op = "Concurrent"
        /\ th.call.op = "IRF"
        /\ th.pc = "loop"
        /\ th.n >= th.call.horizon
        /\ Return(t, Ok(IRFRespond(th.buf.Psi, th.buf.shock, th.buf.K,
                                   th.call.horizon)))

\* Goroutine t enters rf.RunIRFAnalysis(varIndex, horizon): the checks and
\* the empty map.
RunIRFBegin(t) ==
    LET th == threads[t]
        e == RunIRFEntry(mem.rf, th.call.varIndex)
    IN  /\ call.op = "Concurrent"
        /\ th.call.op = "RunIRFAnalysis"
        /\ th.pc = "start"
        /\ IF e # NoErr THEN Return(t, Err(e))
           ELSE Advance(t, [th EXCEPT !.pc = "loop", !.n = 0,
                               !.buf = [K |-> mem.rf.A[1].rows,
                                        results |-> EmptyMap]],
                        mem)

\* One iteration shockIdx = n of the loop of RunIRFAnalysis: a whole IRF call
\* and the entry results[shockIdx].
RunIRFStep(t) ==
    LET th == threads[t]
        r == RunIRFLoop(mem.rf, th.call.varIndex, th.call.horizon, th.n + 1,
                        th.buf.results, th.n)
    IN  /\ call.op = "Concurrent"
        /\ th.call.op = "RunIRFAnalysis"
        /\ th.pc = "loop"
        /\ th.n < th.buf.K
        /\ IF r.kind # "ok" THEN Return(t, r)
           ELSE Advance(t, [th EXCEPT !.n = @ + 1, !.buf.results = r.val], mem)

RunIRFReturn(t) ==
    LET th == threads[t]
    IN  /\ call.op = "Concurrent"
        /\ th.call.op = "RunIRFAnalysis"
        /\ th.pc = "loop"
        /\ th.n >= th.buf.K
        /\ Return(t, Ok(th.buf.results))

\* Goroutine t runs rf.GrangerCausality(ts, causeIdx, effectIdx): it reads
\* rf.Model and ts and builds its designs in fresh matrices.
GrangerInThread(t) ==
    LET th == threads[t]
    IN  /\ call.op = "Concurrent"
        /\ th.call.op = "GrangerCausality"
        /\ th.pc = "start"
        /\ Return(t, GrangerCausality(mem.rf, mem.ts, th.call.causeIdx,
                                      th.call.effectIdx, th.call.cdf))

\* Goroutine t runs rf.GrangerCausalityMatrix(ts).
GrangerMatrixInThread(t) ==
    LET th == threads[t]
    IN  /\ call.op = "Concurrent"
        /\ th.call.op = "GrangerCausalityMatrix"
        /\ th.pc = "start"
        /\ Return(t, GrangerCausalityMatrix(mem.rf, mem.ts, th.call.cdf))

\* Any goroutine takes its next step: every interleaving of the calls.
ConcurrentStep ==
    \/ \E t \in ThreadIds : ForecastBegin(t)
    \/ \E t \in ThreadIds : ForecastStep(t)
    \/ \E t \in ThreadIds : ForecastReturn(t)
    \/ \E t \in ThreadIds : IRFBegin(t)
    \/ \E t \in ThreadIds : IRFPsiStep(t)
    \/ \E t \in ThreadIds : IRFReturn(t)
    \/ \E t \in ThreadIds : RunIRFBegin(t)
    \/ \E t \in ThreadIds : RunIRFStep(t)
    \/ \E t \in ThreadIds : RunIRFReturn(t)
    \/ \E t \in ThreadIds : GrangerInThread(t)
    \/ \E t \in ThreadIds : GrangerMatrixInThread(t)

\* main reads its arguments: with fewer than two it prints the usage and
\* returns; an unsupported country panics.
MainArgs ==
    /\ call.op = "main"
    /\ ret = Pending
    /\ threads[1].pc = 0
    /\ IF call.argc < 3 THEN ret' = Ok(NIL) /\ UNCHANGED threads
       ELSE IF call.country \notin {"Singapore", "Qatar"}
            THEN ret' = Panic /\ UNCHANGED threads
       ELSE threads' = <<[pc |-> 1]>> /\ UNCHANGED ret
    /\ UNCHANGED <<call, mem, files>>

\* main runs its next step when that is a computation: on an error it
\* panics, else it goes on to the following step.
MainCompute ==
    LET pc == threads[1].pc
    IN  /\ call.op = "main"
        /\ ret = Pending
        /\ pc \in 1..Len(MainSteps)
        /\ MainFile(MainSteps[pc]) = ""
        /\ IF call.failsAt = MainSteps[pc]
           THEN ret' = Panic /\ UNCHANGED threads
           ELSE threads' = <<[pc |-> pc + 1]>> /\ UNCHANGED ret
        /\ UNCHANGED <<call, mem, files>>

\* main runs its next step when that is an output: os.Create fails and main
\* panics, or the file is written.
MainOutput ==
    LET pc == threads[1].pc
    IN  /\ call.op = "main"
        /\ ret = Pending
        /\ pc \in 1..Len(MainSteps)
        /\ MainFile(MainSteps[pc]) # ""
        /\ IF call.failsAt = MainSteps[pc]
           THEN ret' = Panic /\ UNCHANGED <<threads, files>>
           ELSE /\ threads' = <<[pc |-> pc + 1]>>
                /\ files' = Append(files, MainFile(MainSteps[pc]))
                /\ UNCHANGED ret
        /\ UNCHANGED <<call, mem>>

\* main returns after its last step.
MainExit ==
    /\ call.op = "main"
    /\ ret = Pending
    /\ threads[1].pc = Len(MainSteps) + 1
    /\ ret' = Ok(NIL)
    /\ UNCHANGED <<call, mem, threads, files>>

MainStep == MainArgs \/ MainCompute \/ MainOutput \/ MainExit

\* rf.OutputIRFAnalysisToCSV(path, analysis, varNames) runs and returns; the
\* file it wrote is added to `files`.
OutputIRFCall ==
    LET w == OutputIRFAnalysisToCSV(call.analysis, call.varNames, call.createOk,
                                    call.headerOrder, call.rowOrders)
    IN  /\ call.op = "OutputIRFAnalysisToCSV"
        /\ ret = Pending
        /\ ret' = w.ret
        /\ files' = IF w.lines = NIL THEN files
                    ELSE Append(files, [name |-> "irf_results.csv",
                                        lines |-> w.lines])
        /\ UNCHANGED <<call, mem, threads>>

Next ==
    \/ EstimateCall \/ ForecastCall \/ IRFCall \/ RunIRFCall \/ GrangerCall
    \/ GrangerMatrixCall \/ ConcurrentStep \/ MainStep \/ OutputIRFCall

Spec == Init /\ [][Next]_vars

\* One specification per operation: the calls of that operation alone.
SpecEstimate == InitEstimate /\ [][EstimateCall]_vars

SpecForecast == InitForecast /\ [][ForecastCall]_vars

SpecIRF == InitIRF /\ [][IRFCall]_vars

SpecRunIRF == InitRunIRF /\ [][RunIRFCall]_vars

SpecGranger == InitGranger /\ [][GrangerCall]_vars

\* Calls of Estimate, Forecast and IRF: the operation that builds fitted
\* models and the two that read their lag matrices.
SpecLagMatrices ==
    (InitEstimate \/ InitForecast \/ InitIRF)
        /\ [][EstimateCall \/ ForecastCall \/ IRFCall]_vars

SpecGrangerMatrix == InitGrangerMatrix /\ [][GrangerMatrixCall]_vars

\* Two goroutines calling the engine on a shared model and series.
SpecConcurrent == InitConcurrent /\ [][ConcurrentStep]_vars

\* A run of the command-line driver.
SpecMain == InitMain /\ [][MainStep]_vars

SpecOutputIRF == InitOutputIRF /\ [][OutputIRFCall]_vars

\* ------------------------------------------------------------------ claims

Returned(op) == call.op = op /\ ret # Pending

AllZero(M) == \A i \in 0..(M.rows - 1), j \in 0..(M.cols - 1) : M.data[i][j] = 0

IsMatrix(M, r, c) ==
    /\ M # NIL
    /\ M.rows = r /\ M.cols = c
    /\ DOMAIN M.data = 0..(r - 1)
    /\ \A i \in 0..(r - 1) : DOMAIN M.data[i] = 0..(c - 1)

\* The inputs Estimate rejects, as the claim lists them.
EstimateBadInput(ts, spec) ==
    IF ts = NIL THEN TRUE
    ELSE IF ts.Y = NIL THEN TRUE
    ELSE spec.Lags <= 0 \/ ts.Y.rows <= spec.Lags \/ spec.HasExogenous

\* The solve stage fails: X'X is singular and the SVD factorization fails.
EstimateSolveFails(ts, spec, svdOk) ==
    /\ Inverse(MatMul(Transpose(EstimateX(ts.Y, spec)), EstimateX(ts.Y, spec))).err
    /\ ~svdOk

\* C1: Estimate returns an error and a nil model whenever the time series or
\* its observation matrix is missing, Lags <= 0, T <= Lags or HasExogenous;
\* it never returns both a model and an error; and when none of these holds
\* and the solve stage succeeds it returns a model and no error.
C1_EstimateRejects ==
    Returned("Estimate") =>
        /\ EstimateBadInput(call.ts, call.spec) =>
              ret.kind = "error" /\ ret.val = NIL /\ ret.err # NoErr
        /\ ~(ret.val # NIL /\ ret.err # NoErr)
        /\ (~EstimateBadInput(call.ts, call.spec)
            /\ ~EstimateSolveFails(call.ts, call.spec, call.svdOk)) =>
              ret.kind = "ok" /\ ret.val # NIL /\ ret.err = NoErr

\* An Estimate call rejected for its exogenous flag alone.
C1_Witness ==
    /\ Returned("Estimate")
    /\ call.ts # NIL
    /\ call.ts.Y # NIL
    /\ call.spec.Lags > 0
    /\ call.ts.Y.rows > call.spec.Lags
    /\ call.spec.HasExogenous
    /\ ret.kind = "error"

\* C2: a successful Estimate on a T x K series with spec (p, deterministic
\* term) returns a model that stores the spec unchanged, holds exactly p lag
\* matrices each K x K, and whose deterministic coefficients are nil exactly
\* when the term is none, else K x d with d = 1 for constant only or trend
\* only and d = 2 for constant+trend, column 0 holding the coefficients of the
\* constant regressor and column 1 those of the trend regressor.
C2_ModelShape ==
    (Returned("Estimate") /\ ret.kind = "ok") =>
        LET K == call.ts.Y.cols
            p == call.spec.Lags
            det == call.spec.Deterministic
            X == EstimateX(call.ts.Y, call.spec)
            B == EstimateB(X, EstimateYreg(call.ts.Y, p)).num
            d == IF det = DetConstTrend THEN 2 ELSE 1
        IN  /\ ret.val.Model = call.spec
            /\ Len(ret.val.A) = p
            /\ \A j \in 1..p : IsMatrix(ret.val.A[j], K, K)
            /\ (ret.val.C = NIL) <=> (det = DetNone)
            /\ det # DetNone =>
                  /\ IsMatrix(ret.val.C, K, d)
                  /\ det = DetConstTrend =>
                        /\ \A t \in 0..(X.rows - 1) :
                              X.data[t][0] = 1 /\ X.data[t][1] = t + p + 1
                        /\ \A k \in 0..(K - 1) :
                              /\ ret.val.C.data[k][0] = B.data[0][k]
                              /\ ret.val.C.data[k][1] = B.data[1][k]

\* A successful two-variable, two-lag Estimate with constant and trend whose
\* constant and trend coefficients differ.
C2_Witness ==
    /\ Returned("Estimate")
    /\ ret.kind = "ok"
    /\ call.ts.Y.cols = 2
    /\ call.spec.Lags = 2
    /\ call.spec.Deterministic = DetConstTrend
    /\ ret.val.C.data[0][0] # ret.val.C.data[0][1]

\* C3: in the solve stage the SVD fallback is taken exactly when the inversion
\* of X'X reports an error, so Estimate's outcome depends on the SVD
\* factorization exactly then, and on that path Estimate fails only if the
\* factorization fails; with numerical rank zero B is the zero matrix; and for
\* an all-zero observation matrix Estimate succeeds (the factorization
\* succeeding) with every entry of every lag matrix zero.
C3_SvdFallback ==
    (Returned("Estimate") /\ ~EstimateBadInput(call.ts, call.spec)) =>
        LET X == EstimateX(call.ts.Y, call.spec)
            singular == Inverse(MatMul(Transpose(X), X)).err
        IN  /\ (ret.kind = "error") <=> (singular /\ ~call.svdOk)
            /\ (singular /\ call.svdOk /\ Rank(X) = 0) =>
                  /\ \A j \in 1..call.spec.Lags : AllZero(ret.val.A[j])
                  /\ ret.val.C # NIL => AllZero(ret.val.C)
            /\ (AllZero(call.ts.Y) /\ call.svdOk) =>
                  /\ singular
                  /\ ret.kind = "ok"
                  /\ \A j \in 1..call.spec.Lags : AllZero(ret.val.A[j])

\* An all-zero series with a constant: the design has rank one, the fallback
\* solves it, and Estimate succeeds.
C3_Witness ==
    /\ Returned("Estimate")
    /\ ~EstimateBadInput(call.ts, call.spec)
    /\ AllZero(call.ts.Y)
    /\ call.spec.Deterministic = DetConst
    /\ Rank(EstimateX(call.ts.Y, call.spec)) = 1
    /\ ret.kind = "ok"

\* The inputs Forecast rejects, as the claim lists them.
ForecastBadInput(rf, yHist, steps) ==
    IF rf = NIL THEN TRUE
    ELSE \/ Len(rf.A) = 0
         \/ steps <= 0
         \/ rf.Model.Lags <= 0
         \/ yHist.rows < rf.Model.Lags

\* C4: Forecast returns an error and no matrix when the model is nil or has no
\* lag matrices, when steps <= 0, when the lag order p <= 0 and when the
\* history has fewer than p rows; for a model with lag matrices, p > 0,
\* steps > 0 and a history of at least p rows it returns no error.
C4_ForecastErrors ==
    Returned("Forecast") =>
        IF ForecastBadInput(call.rf, call.yHist, call.steps)
        THEN ret.kind = "error" /\ ret.val = NIL /\ ret.err # NoErr
        ELSE ret.kind = "ok" /\ ret.val # NIL /\ ret.err = NoErr

\* Forecast on a model whose Lags field exceeds its number of lag matrices,
\* with inputs that pass every guard, ends in a run-time panic.
C4_PanicReached ==
    /\ Returned("Forecast")
    /\ ~ForecastBadInput(call.rf, call.yHist, call.steps)
    /\ call.rf.Model.Lags > Len(call.rf.A)
    /\ call.yHist.cols = call.rf.A[1].rows
    /\ ret.kind = "panic"

\* A model as Estimate builds it, with a history of its own width: Lags lag
\* matrices, each as wide as the history.
ForecastWellFormed(rf, yHist, steps) ==
    /\ ~ForecastBadInput(rf, yHist, steps)
    /\ Len(rf.A) = rf.Model.Lags
    /\ rf.A[1].rows = yHist.cols

\* The deterministic term of equation k at forecast step s.
C5_Det(rf, yHist, k, s) ==
    IF rf.C = NIL THEN 0
    ELSE (IF rf.Model.Deterministic \in {DetConst, DetConstTrend}
          THEN rf.C.data[k][0] ELSE 0)
         + (IF rf.Model.Deterministic = DetTrend
            THEN rf.C.data[k][0] * (yHist.rows + s + 1) ELSE 0)
         + (IF rf.Model.Deterministic = DetConstTrend
            THEN rf.C.data[k][1] * (yHist.rows + s + 1) ELSE 0)

RECURSIVE C5_Y(_, _, _)
\* y(i) of the claim: history row T + i for i < 0, else the forecast of step i
\* computed from y(i - 1), ..., y(i - p).
C5_Y(rf, yHist, i) ==
    IF i < 0 THEN yHist.data[yHist.rows + i]
    ELSE LET prev == [lag \in 1..rf.Model.Lags |-> C5_Y(rf, yHist, i - lag)]
         IN  [k \in 0..(yHist.cols - 1) |->
                C5_Det(rf, yHist, k, i)
                + SumTo([lag \in 1..rf.Model.Lags |->
                           SumTo([j \in 0..(yHist.cols - 1) |->
                                    rf.A[lag].data[k][j] * prev[lag][j]],
                                 0, yHist.cols - 1)],
                        1, rf.Model.Lags)]

\* C5: for a model with p lag matrices over K variables, a history of T >= p
\* rows and steps > 0, Forecast returns exactly a steps x K matrix whose row s
\* is the deterministic term plus the sum over lag = 1..p of A_lag * y(s - lag),
\* y(i) being history row T + i for i < 0 and forecast row i for i >= 0; for a
\* scalar AR(1) with coefficient a and no deterministic term, row s is
\* a^(s+1) times the last history value.
C5_ForecastRecursion ==
    (Returned("Forecast")
     /\ ForecastWellFormed(call.rf, call.yHist, call.steps)) =>
        LET rf == call.rf
            K == call.yHist.cols
            T == call.yHist.rows
        IN  /\ ret.kind = "ok"
            /\ IsMatrix(ret.val, call.steps, K)
            /\ \A s \in 0..(call.steps - 1) :
                  ret.val.data[s] = C5_Y(rf, call.yHist, s)
            /\ (K = 1 /\ rf.Model.Lags = 1 /\ rf.Model.Deterministic = DetNone) =>
                  \A s \in 0..(call.steps - 1) :
                      ret.val.data[s][0] =
                          Pow(rf.A[1].data[0][0], s + 1) * call.yHist.data[T - 1][0]

\* A two-variable, two-lag forecast of three steps with constant and trend
\* whose last row depends on earlier forecast rows.
C5_Witness ==
    /\ Returned("Forecast")
    /\ ForecastWellFormed(call.rf, call.yHist, call.steps)
    /\ call.rf.Model.Lags = 2
    /\ call.yHist.cols = 2
    /\ call.steps = 3
    /\ call.rf.Model.Deterministic = DetConstTrend
    /\ call.rf.C # NIL
    /\ ret.kind = "ok"
    /\ ret.val.data[2][0] > ret.val.data[1][0]
    /\ ret.val.data[1][0] > ret.val.data[0][0]
    /\ ret.val.data[0][0] > 0

\* C6: for a scalar VAR(1) with a constant term, AR coefficient 0 and constant
\* coefficient c, Forecast returns c in every one of its steps rows, for every
\* history of at least one row and every steps > 0.
C6_ConstantOnly ==
    (/\ Returned("Forecast")
     /\ ForecastWellFormed(call.rf, call.yHist, call.steps)
     /\ call.yHist.cols = 1
     /\ call.rf.Model.Lags = 1
     /\ call.rf.Model.Deterministic = DetConst
     /\ call.rf.C # NIL
     /\ call.rf.A[1].data[0][0] = 0) =>
        /\ ret.kind = "ok"
        /\ ret.val.rows = call.steps
        /\ \A s \in 0..(call.steps - 1) :
              ret.val.data[s][0] = call.rf.C.data[0][0]

\* A constant-only scalar forecast of several steps from a nonzero history
\* with a nonzero constant.
C6_Witness ==
    /\ Returned("Forecast")
    /\ ForecastWellFormed(call.rf, call.yHist, call.steps)
    /\ call.yHist.cols = 1
    /\ call.rf.Model.Lags = 1
    /\ call.rf.Model.Deterministic = DetConst
    /\ call.rf.C # NIL
    /\ call.rf.A[1].data[0][0] = 0
    /\ call.rf.C.data[0][0] = 2
    /\ call.yHist.data[call.yHist.rows - 1][0] = 1
    /\ call.steps = MaxSteps
    /\ ret.kind = "ok"

\* The inputs IRF rejects, as the claim lists them.
IRFBadInput(rf, horizon, shockIndex) ==
    IF rf = NIL THEN TRUE
    ELSE IF Len(rf.A) = 0 THEN TRUE
    ELSE \/ horizon <= 0
         \/ rf.Model.Lags <= 0
         \/ shockIndex < 0
         \/ shockIndex >= rf.A[1].rows

\* C7: IRF returns an error and no matrix when the model is nil or has no lag
\* matrices, when horizon <= 0, when the lag order p <= 0 and when shockIndex
\* is outside 0..K-1 (K the dimension of A_1); otherwise it returns a
\* horizon x K matrix and no error.
C7_IRFErrors ==
    Returned("IRF") =>
        IF IRFBadInput(call.rf, call.horizon, call.shockIndex)
        THEN ret.kind = "error" /\ ret.val = NIL /\ ret.err # NoErr
        ELSE /\ ret.kind = "ok" /\ ret.err = NoErr
             /\ IsMatrix(ret.val, call.horizon, call.rf.A[1].rows)

\* IRF on a model whose Lags field exceeds its number of lag matrices, with
\* inputs that pass every guard, ends in a run-time panic.
C7_PanicReached ==
    /\ Returned("IRF")
    /\ ~IRFBadInput(call.rf, call.horizon, call.shockIndex)
    /\ call.rf.Model.Lags > Len(call.rf.A)
    /\ ret.kind = "panic"

\* A model as Estimate builds it: Lags lag matrices.
IRFWellFormed(rf, horizon, shockIndex) ==
    /\ ~IRFBadInput(rf, horizon, shockIndex)
    /\ Len(rf.A) = rf.Model.Lags

RECURSIVE C8_Psi(_, _)
\* Psi_h of the claim: the identity for h = 0, else the sum over
\* j = 1..min(h, p) of A_j * Psi_(h-j).
C8_Psi(rf, h) ==
    LET K == rf.A[1].rows
        m == IF h < rf.Model.Lags THEN h ELSE rf.Model.Lags
    IN  IF h = 0
        THEN [i \in 0..(K - 1) |-> [j \in 0..(K - 1) |-> IF i = j THEN 1 ELSE 0]]
        ELSE LET prev == [j \in 1..m |-> C8_Psi(rf, h - j)]
             IN  [i \in 0..(K - 1) |-> [c \in 0..(K - 1) |->
                    SumTo([j \in 1..m |->
                             SumTo([k \in 0..(K - 1) |->
                                      rf.A[j].data[i][k] * prev[j][k][c]],
                                   0, K - 1)],
                          1, m)]]

\* C8: for a model with p lag matrices, IRF row h (0 <= h < horizon) equals
\* Psi_h * shockVector with Psi_0 the identity and Psi_h the sum over
\* j = 1..min(h, p) of A_j * Psi_(h-j), no Psi being read at a negative index;
\* for a scalar AR(1) with coefficient a and shock variance 1, row h is a^h.
C8_PsiRecursion ==
    (Returned("IRF")
     /\ IRFWellFormed(call.rf, call.horizon, call.shockIndex)) =>
        LET rf == call.rf
            K == rf.A[1].rows
            shock == IRFShock(rf, K, call.shockIndex)
        IN  /\ ret.kind = "ok"
            /\ \A h \in 0..(call.horizon - 1) :
                  /\ \A j \in 1..IRFMaxLag(rf.Model.Lags, h) : h - j >= 0
                  /\ \A i \in 0..(K - 1) :
                        ret.val.data[h][i] =
                            SumTo([j \in 0..(K - 1) |->
                                     C8_Psi(rf, h)[i][j] * shock[j]],
                                  0, K - 1)
            /\ (K = 1 /\ rf.Model.Lags = 1 /\ rf.SigmaU # NIL) =>
                  (rf.SigmaU.data[0][0] = 1 =>
                      \A h \in 0..(call.horizon - 1) :
                          ret.val.data[h][0] = Pow(rf.A[1].data[0][0], h))

\* A two-variable, two-lag response over the longest horizon to an
\* orthogonalized shock that moves both variables, growing over the horizon.
C8_Witness ==
    /\ Returned("IRF")
    /\ IRFWellFormed(call.rf, call.horizon, call.shockIndex)
    /\ call.rf.A[1].rows = 2
    /\ call.rf.Model.Lags = 2
    /\ call.horizon = MaxHorizon
    /\ call.rf.SigmaU # NIL
    /\ ret.kind = "ok"
    /\ ret.val.data[0][0] > 0
    /\ ret.val.data[0][1] > 0
    /\ ret.val.data[MaxHorizon - 1][0] > ret.val.data[MaxHorizon - 2][0]
    /\ ret.val.data[MaxHorizon - 1][0] # ret.val.data[MaxHorizon - 1][1]

\* Row 0 of IRF(1, s) for every s, assembled column by column.
C9_Rows(rf) ==
    LET K == rf.A[1].rows
    IN  [rows |-> K, cols |-> K,
         data |-> [i \in 0..(K - 1) |-> [s \in 0..(K - 1) |->
                     IRF(rf, 1, s).val.data[0][i]]]]

\* C9: row 0 of IRF(horizon, s) is the shock vector.  When the covariance is
\* present and its factorization succeeds it is column s of the Cholesky
\* factor L, and the rows IRF(1, s), s = 0..K-1, assembled column by column
\* are L: lower triangular with a positive diagonal and L * L' = SigmaU.
\* When the covariance is absent or its factorization fails it is the unit
\* vector at s, and IRF still succeeds.
C9_ShockRow ==
    (Returned("IRF")
     /\ IRFWellFormed(call.rf, call.horizon, call.shockIndex)) =>
        LET rf == call.rf
            K == rf.A[1].rows
            L == C9_Rows(rf)
            orth == IF rf.SigmaU = NIL THEN FALSE ELSE Cholesky(rf.SigmaU).ok
        IN  /\ ret.kind = "ok"
            /\ orth =>
                  /\ \A i \in 0..(K - 1) :
                        ret.val.data[0][i] = L.data[i][call.shockIndex]
                  /\ \A i \in 0..(K - 1), j \in 0..(K - 1) :
                        /\ j > i => L.data[i][j] = 0
                        /\ j = i => L.data[i][j] > 0
                        /\ MatMul(L, Transpose(L)).data[i][j] = rf.SigmaU.data[i][j]
            /\ ~orth =>
                  \A i \in 0..(K - 1) :
                      ret.val.data[0][i] = IF i = call.shockIndex THEN 1 ELSE 0

\* An orthogonalized shock to the first of two variables that moves the second
\* as well: the factor has a nonzero entry below its diagonal.
C9_Witness ==
    /\ Returned("IRF")
    /\ IRFWellFormed(call.rf, call.horizon, call.shockIndex)
    /\ call.rf.A[1].rows = 2
    /\ call.shockIndex = 0
    /\ call.rf.SigmaU # NIL
    /\ ret.kind = "ok"
    /\ ret.val.data[0][0] > 0
    /\ ret.val.data[0][1] > 0

\* A unit-impulse fallback on a covariance that is present but not positive
\* definite.
C9_FallbackReached ==
    /\ Returned("IRF")
    /\ IRFWellFormed(call.rf, call.horizon, call.shockIndex)
    /\ call.rf.SigmaU # NIL
    /\ ~Cholesky(call.rf.SigmaU).ok
    /\ ret.kind = "ok"

\* IRF took the unit-impulse fallback.
IRFFellBack(rf) == IF rf.SigmaU = NIL THEN TRUE ELSE ~Cholesky(rf.SigmaU).ok

\* C10: when IRF takes the unit-impulse fallback, what it returns lets the
\* caller tell the result from an orthogonalized one: no call on the same
\* model with a positive definite covariance returns the same thing.
C10_FallbackFlagged ==
    (/\ Returned("IRF")
     /\ IRFWellFormed(call.rf, call.horizon, call.shockIndex)
     /\ IRFFellBack(call.rf)) =>
        \A S \in Covariances(call.rf.A[1].rows) \ {NIL} :
            Cholesky(S).ok =>
                IRF([call.rf EXCEPT !.SigmaU = S], call.horizon, call.shockIndex) # ret

\* A fallback result that equals, field by field, the orthogonalized result
\* of the same model with the identity covariance.
C10_Indistinguishable ==
    /\ Returned("IRF")
    /\ IRFWellFormed(call.rf, call.horizon, call.shockIndex)
    /\ call.rf.A[1].rows = 2
    /\ call.horizon > 1
    /\ IRFFellBack(call.rf)
    /\ ret.kind = "ok"
    /\ \E S \in Covariances(2) \ {NIL} :
          /\ Cholesky(S).ok
          /\ IRF([call.rf EXCEPT !.SigmaU = S], call.horizon, call.shockIndex) = ret

\* The calls RunIRFAnalysis rejects: an unfit model, varIndex out of range, or
\* an IRF call that returns an error.
RunIRFBadInput(rf, varIndex, horizon) ==
    IF rf = NIL THEN TRUE
    ELSE IF Len(rf.A) = 0 THEN TRUE
    ELSE \/ varIndex < 0
         \/ varIndex >= rf.A[1].rows
         \/ \E s \in 0..(rf.A[1].rows - 1) : IRF(rf, horizon, s).kind = "error"

\* C11: for a model with lag matrices over K variables and varIndex in
\* 0..K-1, RunIRFAnalysis returns a mapping with key set exactly 0..K-1 whose
\* entry for shock s has length horizon and element h equal to
\* IRF(horizon, s)[h][varIndex]; for varIndex out of range, an unfit model or
\* any failing IRF call it returns an error and no mapping, never a partly
\* filled one.
C11_RunIRFAnalysis ==
    Returned("RunIRFAnalysis") =>
        IF RunIRFBadInput(call.rf, call.varIndex, call.horizon)
        THEN ret.kind = "error" /\ ret.val = NIL /\ ret.err # NoErr
        ELSE /\ ret.kind = "ok" /\ ret.err = NoErr
             /\ DOMAIN ret.val = 0..(call.rf.A[1].rows - 1)
             /\ \A s \in DOMAIN ret.val :
                   /\ DOMAIN ret.val[s] = 0..(call.horizon - 1)
                   /\ \A h \in 0..(call.horizon - 1) :
                         ret.val[s][h] =
                             IRF(call.rf, call.horizon, s).val.data[h][call.varIndex]

\* RunIRFAnalysis on a two-variable model whose Lags field exceeds its number
\* of lag matrices ends in a run-time panic inside its first IRF call.
C11_PanicReached ==
    /\ Returned("RunIRFAnalysis")
    /\ ~RunIRFBadInput(call.rf, call.varIndex, call.horizon)
    /\ call.rf.A[1].rows = 2
    /\ call.rf.Model.Lags > Len(call.rf.A)
    /\ ret.kind = "panic"

\* With as many lag matrices as Lags, the outcome is the one claimed: a
\* complete mapping or an error.
C11_WellFormedHolds ==
    (Returned("RunIRFAnalysis") /\ call.rf # NIL) =>
        (Len(call.rf.A) = call.rf.Model.Lags => C11_RunIRFAnalysis)

\* The error messages of the index checks.
GrangerIndexErrors ==
    {"causeIdx out of range", "effectIdx out of range",
     "causeIdx and effectIdx cannot be the same"}

\* C12: GrangerCausality returns an error and no result whenever
\* causeIdx = effectIdx and whenever causeIdx or effectIdx lies outside
\* 0..K-1, for every time series; the checks come before any regression is
\* built, so with a series present the error is the index error whatever the
\* series' length and the lag order are.
C12_GrangerIndexChecks ==
    (Returned("GrangerCausality") /\ call.rf # NIL) =>
        LET present == IF call.ts = NIL THEN FALSE ELSE call.ts.Y # NIL
            bad == \/ call.causeIdx = call.effectIdx
                   \/ present /\ (\/ call.causeIdx < 0
                                  \/ call.causeIdx >= call.ts.Y.cols
                                  \/ call.effectIdx < 0
                                  \/ call.effectIdx >= call.ts.Y.cols)
        IN  bad => /\ ret.kind = "error" /\ ret.val = NIL /\ ret.err # NoErr
                   /\ present => ret.err \in GrangerIndexErrors

\* A test of a variable against itself on a series too short for any
\* regression row.
C12_Witness ==
    /\ Returned("GrangerCausality")
    /\ call.rf # NIL
    /\ call.ts # NIL
    /\ call.ts.Y # NIL
    /\ call.ts.Y.rows < call.rf.Model.Lags
    /\ call.causeIdx = 1
    /\ call.effectIdx = 1
    /\ call.ts.Y.cols = 2
    /\ ret.err = "causeIdx and effectIdx cannot be the same"

\* A call of GrangerCausality that passes the checks of its arguments: a
\* model, a series with its observations, two distinct indices in range.
GrangerArgsOK ==
    /\ call.rf # NIL
    /\ call.ts # NIL
    /\ IF call.ts = NIL THEN FALSE ELSE call.ts.Y # NIL
    /\ IF call.ts = NIL THEN FALSE
       ELSE IF call.ts.Y = NIL THEN FALSE
       ELSE /\ call.causeIdx \in 0..(call.ts.Y.cols - 1)
            /\ call.effectIdx \in 0..(call.ts.Y.cols - 1)
            /\ call.causeIdx # call.effectIdx

\* dof = (T - p) - (detCols + p * K) of the call.
GrangerDof ==
    (call.ts.Y.rows - call.rf.Model.Lags)
    - ((IF call.rf.Model.Deterministic \in {DetConst, DetTrend} THEN 1
        ELSE IF call.rf.Model.Deterministic = DetConstTrend THEN 2 ELSE 0)
       + call.rf.Model.Lags * call.ts.Y.cols)

\* C13: for every series of T rows and K variables and every lag order p with
\* valid distinct indices, GrangerCausality fails with the
\* insufficient-degrees-of-freedom error, returned to the caller with no
\* result, whenever dof = (T - p) - (detCols + p * K) <= 0, the cases T <= p
\* included.
C13_GrangerDofError ==
    (Returned("GrangerCausality") /\ GrangerArgsOK /\ GrangerDof <= 0) =>
        /\ ret.kind = "error"
        /\ ret.val = NIL
        /\ ret.err = "insufficient degrees of freedom"

\* A test on a series with fewer rows than lags ends in a run-time panic.
C13_PanicReached ==
    /\ Returned("GrangerCausality")
    /\ GrangerArgsOK
    /\ call.ts.Y.rows < call.rf.Model.Lags
    /\ ret.kind = "panic"

\* A test with regression rows but dof <= 0 fails in a solve, not in the
\* degrees-of-freedom check.
C13_SolveErrorReached ==
    /\ Returned("GrangerCausality")
    /\ GrangerArgsOK
    /\ call.ts.Y.rows > call.rf.Model.Lags
    /\ GrangerDof <= 0
    /\ ret.kind = "error"
    /\ ret.err = "failed to solve unrestricted model"

\* The degrees-of-freedom error itself is returned for a series whose designs
\* have full rank.
C13_DofErrorReached ==
    /\ Returned("GrangerCausality")
    /\ GrangerArgsOK
    /\ GrangerDof <= 0
    /\ ret.err = "insufficient degrees of freedom"

\* C14: every result GrangerCausality returns has 0 <= PValue <= 1,
\* Significant true exactly when PValue < 0.05, Lags equal to the model's lag
\* order, and CauseVar / EffectVar the series' variable names at causeIdx /
\* effectIdx.
C14_GrangerResult ==
    (Returned("GrangerCausality") /\ ret.kind = "ok") =>
        /\ 0 <= ret.val.PValue /\ ret.val.PValue <= 1000
        /\ ret.val.Significant <=> (ret.val.PValue < 50)
        /\ ret.val.Lags = call.rf.Model.Lags
        /\ ret.val.CauseVar = Names[call.causeIdx + 1]
        /\ ret.val.EffectVar = Names[call.effectIdx + 1]
        /\ ret.val.CauseVar = call.ts.VarNames[call.causeIdx + 1]
        /\ ret.val.EffectVar = call.ts.VarNames[call.effectIdx + 1]

\* A result with a positive statistic whose raw p-value, 1 - CDF, fell below
\* zero and was clamped to 0: it is significant.
C14_Witness ==
    /\ Returned("GrangerCausality")
    /\ ret.kind = "ok"
    /\ ret.val.FStatistic.num > 0
    /\ call.cdf = 1001
    /\ call.causeIdx = 1
    /\ call.effectIdx = 0
    /\ ret.val.PValue = 0
    /\ ret.val.Significant

\* A result just at the threshold: p-value 0.05, not significant.
C14_AtThreshold ==
    /\ Returned("GrangerCausality")
    /\ ret.kind = "ok"
    /\ ret.val.PValue = 50
    /\ ~ret.val.Significant

\* The statistic as GrangerCausality computes it before the edge cases.
GrangerComputedF ==
    LET p == call.rf.Model.Lags
        y == GrangerYEffect(call.ts.Y, p, call.effectIdx)
    IN  GrangerFStatistic(
            GrangerRSS(GrangerXRestricted(call.ts.Y, call.rf.Model, call.causeIdx), y),
            GrangerRSS(GrangerXUnrestricted(call.ts.Y, call.rf.Model), y),
            p, GrangerDof)

\* C15: when the computed F-statistic is NaN or infinite GrangerCausality
\* returns successfully with FStatistic = 0, PValue = 1 and Significant
\* false; no returned result carries a non-finite FStatistic or PValue.
C15_GrangerNonFinite ==
    Returned("GrangerCausality") =>
        /\ ret.kind = "ok" =>
              /\ ret.val.FStatistic.kind = "finite"
              /\ ret.val.FStatistic.den > 0
              /\ ret.val.PValue \in 0..1000
        /\ (/\ GrangerArgsOK
            /\ GrangerDof > 0
            /\ ~SolveVecFails(GrangerXUnrestricted(call.ts.Y, call.rf.Model))) =>
              (GrangerComputedF.kind # "finite" =>
                  /\ ret.kind = "ok"
                  /\ ret.val.FStatistic = Finite(0, 1)
                  /\ ret.val.PValue = 1000
                  /\ ~ret.val.Significant)

\* A perfect unrestricted fit that the restricted model does not match: the
\* statistic is +Inf and the result carries 0 and p-value 1.
C15_Witness ==
    /\ Returned("GrangerCausality")
    /\ GrangerArgsOK
    /\ GrangerDof > 0
    /\ ~SolveVecFails(GrangerXUnrestricted(call.ts.Y, call.rf.Model))
    /\ GrangerComputedF.kind = "inf"
    /\ ret.kind = "ok"
    /\ ret.val.PValue = 1000

\* The outcome of the test of pair (i, j) within the matrix call.
C16_Pair(i, j) ==
    GrangerCausality(call.rf, call.ts, i, j, CdfOfPair(call.cdf, i, j))

\* C16: on success GrangerCausalityMatrix returns a K x K collection whose
\* entry [i][i] is nil for every i and whose entry [i][j], i # j, is the
\* result of GrangerCausality with cause i and effect j; if any single pair
\* test fails it returns an error and no collection, never a partly filled
\* one.
C16_GrangerMatrix ==
    (/\ Returned("GrangerCausalityMatrix")
     /\ call.rf # NIL
     /\ call.ts # NIL
     /\ IF call.ts = NIL THEN FALSE ELSE call.ts.Y # NIL) =>
        LET K == call.ts.Y.cols
            pairs == {ij \in (0..(K - 1)) \X (0..(K - 1)) : ij[1] # ij[2]}
        IN  IF \E ij \in pairs : C16_Pair(ij[1], ij[2]).kind # "ok"
            THEN ret.kind = "error" /\ ret.val = NIL /\ ret.err # NoErr
            ELSE /\ ret.kind = "ok" /\ ret.err = NoErr
                 /\ DOMAIN ret.val = 0..(K - 1)
                 /\ \A i \in 0..(K - 1) :
                       /\ DOMAIN ret.val[i] = 0..(K - 1)
                       /\ ret.val[i][i] = NIL
                 /\ \A ij \in pairs :
                       ret.val[ij[1]][ij[2]] = C16_Pair(ij[1], ij[2]).val

\* The matrix call on a two-variable series with fewer rows than lags ends
\* in the run-time panic of its first pair test.
C16_PanicReached ==
    /\ Returned("GrangerCausalityMatrix")
    /\ call.rf # NIL
    /\ call.ts # NIL
    /\ call.ts.Y # NIL
    /\ call.ts.Y.cols = 2
    /\ call.ts.Y.rows < call.rf.Model.Lags
    /\ ret.kind = "panic"

\* Whenever no pair test panics the outcome is the one claimed.
C16_NoPanicHolds ==
    (Returned("GrangerCausalityMatrix") /\ ret.kind # "panic") => C16_GrangerMatrix

\* A complete matrix whose two tests differ in significance.
C16_SuccessReached ==
    /\ Returned("GrangerCausalityMatrix")
    /\ ret.kind = "ok"
    /\ call.ts.Y.cols = 2
    /\ ret.val[0][1].Significant
    /\ ~ret.val[1][0].Significant

\* A pair test that returns an error makes the matrix call return that
\* error and no collection.
C16_ErrorReached ==
    /\ Returned("GrangerCausalityMatrix")
    /\ call.rf # NIL
    /\ call.ts # NIL
    /\ call.ts.Y # NIL
    /\ call.ts.Y.cols = 2
    /\ C16_Pair(0, 1).kind = "error"
    /\ ret.kind = "error"
    /\ ret.val = NIL

\* Fitted models that share a specification and differ in everything else:
\* no lag matrices at all or two of width two, deterministic coefficients
\* present or absent, residual covariance present or absent.
C17_ModelsWith(spec) ==
    {ReducedFormVAR(spec, A, C, SigmaU) :
        A \in {<<>>, LagMatrices(2, 2, 2)},
        C \in {NIL, GenDense(1, 2, 1)},
        SigmaU \in {NIL, Identity(2)}}

\* C17: GrangerCausality's result depends only on the time series, the pair of
\* indices and the model's specification (lag order and deterministic terms):
\* every model with the same specification, whatever its coefficient
\* matrices and residual covariance, present or not, gives the same outcome.
C17_GrangerIgnoresFit ==
    (Returned("GrangerCausality") /\ call.rf # NIL) =>
        \A rf2 \in C17_ModelsWith(call.rf.Model) :
            GrangerCausality(rf2, call.ts, call.causeIdx, call.effectIdx, call.cdf)
                = ret

\* A test with a positive statistic: the same result comes from models with
\* no lag matrix and with two.
C17_Witness ==
    /\ Returned("GrangerCausality")
    /\ ret.kind = "ok"
    /\ call.rf.A # <<>>
    /\ call.rf.SigmaU = NIL
    /\ ret.val.FStatistic.num > 0
    /\ ret.val.Lags = call.rf.Model.Lags

\* What the call c returns when it runs alone on model rf and series ts.
C18_Alone(rf, ts, c) ==
    CASE c.op = "Forecast" -> Forecast(rf, ts.Y, c.steps)
      [] c.op = "IRF" -> IRF(rf, c.horizon, c.shockIndex)
      [] c.op = "RunIRFAnalysis" -> RunIRFAnalysis(rf, c.varIndex, c.horizon)
      [] c.op = "GrangerCausality" ->
            GrangerCausality(rf, ts, c.causeIdx, c.effectIdx, c.cdf)
      [] c.op = "GrangerCausalityMatrix" -> GrangerCausalityMatrix(rf, ts, c.cdf)

\* C18: Forecast, IRF, RunIRFAnalysis, GrangerCausality and
\* GrangerCausalityMatrix leave the fitted model and their inputs unchanged
\* and write only to buffers of their own; so under any interleaving of
\* concurrent calls on one model, each call returns what it returns alone.
C18_ReadOnlyCalls ==
    call.op = "Concurrent" =>
        /\ mem = [rf |-> call.rf, ts |-> call.ts]
        /\ \A t \in ThreadIds :
              threads[t].pc = "done" =>
                  threads[t].ret = C18_Alone(call.rf, call.ts, threads[t].call)

\* A Forecast and an IRF that ran interleaved, both inside their loops at the
\* same time, and both returned a value.
C18_Witness ==
    /\ call.op = "Concurrent"
    /\ threads[1].call.op = "Forecast" /\ threads[1].call.steps = MaxLoop
    /\ threads[2].call.op = "IRF" /\ threads[2].call.horizon = MaxLoop + 1
    /\ threads[1].pc = "done" /\ threads[1].ret.kind = "ok"
    /\ threads[2].pc = "done" /\ threads[2].ret.kind = "ok"
    /\ threads[1].overlapped /\ threads[2].overlapped
    /\ call.rf.Model.Lags = 2
    /\ call.rf.SigmaU # NIL

\* The computation steps of the driver.
C19_Computations ==
    {"Estimate", "Forecast", "IRF", "GrangerCausalityMatrix", "RunIRFAnalysis"}

\* The steps the driver has completed: those before its position.
C19_Completed == {MainSteps[i] : i \in 1..(threads[1].pc - 1)}

\* C19: in a run of the driver every output file is written after all the
\* computation steps (estimate, forecast, IRF, Granger matrix, shock analysis)
\* have completed, so a run that aborts because an analysis step failed has
\* written no output file.
C19_OutputAfterComputation ==
    call.op = "main" =>
        /\ files # <<>> => C19_Computations \subseteq C19_Completed
        /\ (ret.kind = "panic" /\ call.failsAt \in C19_Computations) =>
              files = <<>>

\* A run that aborted in the Granger step after writing the forecast file.
C19_PartialOutput ==
    /\ call.op = "main"
    /\ ret.kind = "panic"
    /\ threads[1].pc \in 1..Len(MainSteps)
    /\ MainSteps[threads[1].pc] = "GrangerCausalityMatrix"
    /\ files = <<"forecast_results.csv">>

\* What does hold: each file is written after the computation it reports.
C19_OutputAfterItsInput ==
    call.op = "main" =>
        \A i \in 1..Len(files) :
            /\ files[i] = "forecast_results.csv" => "Forecast" \in C19_Completed
            /\ files[i] = "granger_results.csv" =>
                  "GrangerCausalityMatrix" \in C19_Completed
            /\ files[i] = "irf_results.csv" => "RunIRFAnalysis" \in C19_Completed

\* The file written by the call.
C20_Lines == files[1].lines

\* The shock whose name stands in header column c (c = 1 is the first shock
\* column).
C20_ShockOfColumn(c) ==
    CHOOSE k \in DOMAIN call.analysis :
        C20_Lines[1][c + 1]
            = "Shock_in_" \o IRFCsvVarName(call.analysis, call.varNames, k)

\* The file has one data row per horizon step, labelled 0..horizon-1, and one
\* column per shock variable, each shock named once in the header.
C20_Shape ==
    (Returned("OutputIRFAnalysisToCSV") /\ ret.kind = "ok") =>
        LET K == Cardinality(DOMAIN call.analysis)
            horizon == Cardinality(DOMAIN call.analysis[0])
        IN  /\ Len(files) = 1
            /\ Len(C20_Lines) = horizon + 1
            /\ C20_Lines[1][1] = "Horizon"
            /\ \A r \in 1..(horizon + 1) : Len(C20_Lines[r]) = K + 1
            /\ \A r \in 1..horizon : C20_Lines[r + 1][1] = FormatD(r - 1)
            /\ \A k \in DOMAIN call.analysis : \E c \in 1..K :
                  C20_Lines[1][c + 1]
                      = "Shock_in_" \o IRFCsvVarName(call.analysis, call.varNames, k)

\* C20: the file written by OutputIRFAnalysisToCSV has one data row per
\* horizon step 0..horizon-1 and one column per shock variable, and in every
\* data row the value in column c is the response to the shock variable named
\* by header column c, whatever order the analysis mapping is traversed in.
C20_ColumnsAligned ==
    (Returned("OutputIRFAnalysisToCSV") /\ ret.kind = "ok") =>
        /\ C20_Shape
        /\ \A r \in 1..Cardinality(DOMAIN call.analysis[0]) :
              \A c \in 1..Cardinality(DOMAIN call.analysis) :
                  C20_Lines[r + 1][c + 1]
                      = FormatF(call.analysis[C20_ShockOfColumn(c)][r - 1])

\* A file whose first data row has the responses of shocks 0 and 1 in the
\* opposite order to the header's.
C20_Misaligned ==
    /\ Returned("OutputIRFAnalysisToCSV")
    /\ ret.kind = "ok"
    /\ call.varNames = <<"a", "b">>
    /\ C20_Lines[1] = <<"Horizon", "Shock_in_a", "Shock_in_b">>
    /\ call.rowOrders[0] = <<1, 0>>
    /\ C20_Lines[2][2] = FormatF(call.analysis[1][0])
    /\ C20_Lines[2][2] # FormatF(call.analysis[0][0])

\* When every range yields the keys in the same order the columns agree with
\* the header.
C20_AlignedUnderOneOrder ==
    (/\ Returned("OutputIRFAnalysisToCSV")
     /\ \A h \in DOMAIN call.rowOrders : call.rowOrders[h] = call.headerOrder)
        => C20_ColumnsAligned

\* C21: in Estimate's design matrix X (Treg = T - p rows), every row t holds,
\* in order, the constant 1 if a constant is fitted, the trend value t + p + 1
\* if a trend is fitted, and for j = 1..p a block of K columns whose k-th
\* entry is observations[t + p - j][k]; response row t is
\* observations[t + p]; no entry reads an observation row outside 0..T-1.
C21_DesignMatrix ==
    (Returned("Estimate") /\ EstimatePrecheck(call.ts, call.spec) = NoErr) =>
        LET Y == call.ts.Y
            p == call.spec.Lags
            K == Y.cols
            T == Y.rows
            c0 == IF hasConst(call.spec) THEN 1 ELSE 0
            d == c0 + (IF hasTrend(call.spec) THEN 1 ELSE 0)
            X == EstimateX(Y, call.spec)
            Yreg == EstimateYreg(Y, p)
        IN  /\ IsMatrix(X, T - p, d + p * K)
            /\ IsMatrix(Yreg, T - p, K)
            /\ \A t \in 0..(T - p - 1) :
                  /\ hasConst(call.spec) => X.data[t][0] = 1
                  /\ hasTrend(call.spec) => X.data[t][c0] = t + p + 1
                  /\ \A j \in 1..p, k \in 0..(K - 1) :
                        /\ EstimateSrcRow(t, p, j) \in 0..(T - 1)
                        /\ X.data[t][d + (j - 1) * K + k] = Y.data[t + p - j][k]
                  /\ t + p \in 0..(T - 1)
                  /\ \A k \in 0..(K - 1) : Yreg.data[t][k] = Y.data[t + p][k]

\* A fitted two-variable, two-lag model with constant and trend from two
\* regression rows whose first- and second-lag observations differ.
C21_Witness ==
    /\ Returned("Estimate")
    /\ ret.kind = "ok"
    /\ call.spec.Lags = 2
    /\ call.spec.Deterministic = DetConstTrend
    /\ call.ts.Y.cols = 2
    /\ call.ts.Y.rows = 4
    /\ call.ts.Y.data[0] # call.ts.Y.data[1]
    /\ EstimateX(call.ts.Y, call.spec).data[1][1] = 4

\* The first n rows of the observation matrix Y, as a history.
C22_History(Y, n) ==
    [rows |-> n, cols |-> Y.cols,
     data |-> [i \in 0..(n - 1) |-> [k \in 0..(Y.cols - 1) |-> Y.data[i][k]]]]

\* C22: Estimate splits the solved coefficient matrix B (rows = regressors,
\* columns = equations) consistently with the column order of the design
\* matrix: C[k][d] = B[d][k] for d < detCols and
\* A_j[eq][var] = B[detCols + (j - 1) * K + var][eq] for j = 1..p, so that A_j
\* multiplies exactly the lag-j observations in Forecast: the one-step
\* forecast from the first t + p observations is row t of X B.
C22_CoefficientSplit ==
    (Returned("Estimate") /\ ret.kind = "ok") =>
        LET Y == call.ts.Y
            K == Y.cols
            p == call.spec.Lags
            d == detCols(call.spec)
            X == EstimateX(Y, call.spec)
            B == EstimateB(X, EstimateYreg(Y, p)).num
            XB == MatMul(X, B)
        IN  /\ \A k \in 0..(K - 1), dd \in 0..(d - 1) :
                  ret.val.C.data[k][dd] = B.data[dd][k]
            /\ \A j \in 1..p, eq \in 0..(K - 1), var \in 0..(K - 1) :
                  ret.val.A[j].data[eq][var] = B.data[d + (j - 1) * K + var][eq]
            /\ \A t \in 0..(X.rows - 1) :
                  LET f == Forecast(ret.val, C22_History(Y, t + p), 1)
                  IN  /\ f.kind = "ok"
                      /\ \A eq \in 0..(K - 1) :
                            f.val.data[0][eq] = XB.data[t][eq]

\* A fitted two-variable, two-lag model with a constant whose first lag
\* matrix is not symmetric and differs from the second.
C22_Witness ==
    /\ Returned("Estimate")
    /\ ret.kind = "ok"
    /\ call.spec.Lags = 2
    /\ call.ts.Y.cols = 2
    /\ hasConst(call.spec)
    /\ ret.val.A[1].data[0][1] # ret.val.A[1].data[1][0]
    /\ ret.val.A[1] # ret.val.A[2]
    /\ ret.val.C.data[0][0] # 0

\* The divisor a successful Estimate used: SigmaU's denominator is
\* den * den * df.
EstimateUsedDf == ret.sigmaDen \div (ret.den * ret.den)

\* Treg - (detCols + p * K) of the Estimate call.
EstimateFreeRows ==
    (call.ts.Y.rows - call.spec.Lags)
        - (detCols(call.spec) + call.spec.Lags * call.ts.Y.cols)

MaxOf(a, b) == IF a >= b THEN a ELSE b

\* C23 as stated: the divisor Estimate uses for the residual covariance is
\* df = max(Treg - (detCols + p * K), 1) for every T, K, p and deterministic
\* term with T > p.
C23_DfIsMax ==
    (Returned("Estimate") /\ ret.kind = "ok") =>
        EstimateUsedDf = MaxOf(EstimateFreeRows, 1)

\* C23 as amended: the divisor is max(Treg - (detCols + p * K), 1) when
\* Treg - (detCols + p * K) is positive; in a saturated model it is Treg,
\* which is that maximum only when Treg = 1.
C23_DfAmended ==
    (Returned("Estimate") /\ ret.kind = "ok") =>
        LET Treg == call.ts.Y.rows - call.spec.Lags
        IN  /\ EstimateFreeRows > 0 =>
                  EstimateUsedDf = MaxOf(EstimateFreeRows, 1)
            /\ EstimateFreeRows <= 0 =>
                  /\ EstimateUsedDf = Treg
                  /\ (EstimateUsedDf = MaxOf(EstimateFreeRows, 1)) <=> (Treg = 1)

\* A saturated fit with three regression rows: the divisor is 3, not 1.
C23_Witness ==
    /\ Returned("Estimate")
    /\ ret.kind = "ok"
    /\ call.ts.Y.rows - call.spec.Lags = 3
    /\ EstimateFreeRows <= 0
    /\ EstimateUsedDf = 3

\* C24: the divisor Estimate uses for the residual covariance is
\* Treg - (detCols + p * K) when that is positive and Treg otherwise, and is
\* therefore a positive integer in every successful Estimate call.
C24_DfPositive ==
    (Returned("Estimate") /\ ret.kind = "ok") =>
        /\ EstimateUsedDf =
              (IF EstimateFreeRows > 0 THEN EstimateFreeRows
               ELSE call.ts.Y.rows - call.spec.Lags)
        /\ EstimateUsedDf \in Nat
        /\ EstimateUsedDf >= 1

\* An unsaturated fit, whose divisor is Treg - m = 2, ...
C24_Witness ==
    /\ Returned("Estimate")
    /\ ret.kind = "ok"
    /\ EstimateFreeRows = 2
    /\ EstimateUsedDf = 2

\* ... and a fit with more regressors than regression rows, whose divisor is
\* Treg.
C24_SaturatedReached ==
    /\ Returned("Estimate")
    /\ ret.kind = "ok"
    /\ EstimateFreeRows < 0
    /\ EstimateUsedDf = call.ts.Y.rows - call.spec.Lags

\* Row `lag` steps before forecast step s: an earlier forecast row, or a row
\* of the history when s - lag < 0.
C25_Previous(s, lag) ==
    IF s - lag >= 0 THEN ret.val.data[s - lag]
    ELSE call.yHist.data[call.yHist.rows + s - lag]

\* The deterministic term of equation eq at time index idx, as the claim
\* states it.
C25_Deterministic(eq, idx) ==
    LET rf == call.rf
        tc == IF hasConst(rf.Model) THEN 1 ELSE 0
    IN  IF rf.C = NIL THEN 0
        ELSE (IF hasConst(rf.Model) THEN rf.C.data[eq][0] ELSE 0)
             + (IF hasTrend(rf.Model) THEN rf.C.data[eq][tc] * idx ELSE 0)

\* C25: in Forecast the trend regressor of forecast step s is
\* T_history + s + 1, and the deterministic term is added only when
\* deterministic coefficients are present: the constant coefficient if a
\* constant is fitted plus the trend coefficient times that index if a trend
\* is fitted.  When the history is the estimation sample, the index of step 0
\* is one greater than the trend value t + p + 1 of Estimate's last design
\* row.
C25_ForecastTrendIndex ==
    (Returned("Forecast") /\ ret.kind = "ok") =>
        LET rf == call.rf
            p == rf.Model.Lags
            T == call.yHist.rows
            K == call.yHist.cols
        IN  /\ \A s \in 0..(call.steps - 1), eq \in 0..(K - 1) :
                  ret.val.data[s][eq] =
                      C25_Deterministic(eq, T + s + 1)
                      + SumTo([lag \in 1..p |->
                                 SumTo([j \in 0..(K - 1) |->
                                          rf.A[lag].data[eq][j]
                                              * C25_Previous(s, lag)[j]],
                                       0, K - 1)],
                              1, p)
            /\ (hasTrend(rf.Model) /\ T > p) =>
                  LET X == EstimateX(call.yHist, rf.Model)
                  IN  ForecastTIdx(T, 0)
                          = X.data[X.rows - 1][IF hasConst(rf.Model) THEN 1 ELSE 0] + 1

\* A forecast of two steps or more by a model with constant and trend whose
\* trend coefficient is not zero, from a history longer than the lag order.
C25_Witness ==
    /\ Returned("Forecast")
    /\ ret.kind = "ok"
    /\ call.steps >= 2
    /\ call.rf.Model.Deterministic = DetConstTrend
    /\ call.rf.C # NIL
    /\ call.rf.C.data[0][1] # 0
    /\ call.yHist.rows > call.rf.Model.Lags

\* A history of T2 >= p rows whose last p rows are those of y and whose
\* earlier rows hold v in every entry.
C26_Rewritten(y, p, T2, v) ==
    [rows |-> T2, cols |-> y.cols,
     data |-> [i \in 0..(T2 - 1) |-> [k \in 0..(y.cols - 1) |->
                 IF i >= T2 - p THEN y.data[y.rows - T2 + i][k] ELSE v]]]

\* C26: Forecast reads only the last p rows of the history: for a fixed model
\* and steps, two histories with the same number of rows and identical last
\* p rows give identical forecasts, and when the model fits no trend term two
\* histories with identical last p rows give identical forecasts even if
\* their row counts differ.
C26_LastRowsOnly ==
    (/\ Returned("Forecast")
     /\ ret.kind # "panic"
     /\ IF call.rf = NIL THEN FALSE
        ELSE call.rf.Model.Lags \in 1..call.yHist.rows) =>
        LET p == call.rf.Model.Lags
            T == call.yHist.rows
        IN  /\ \A v \in 0..MaxVal :
                  Forecast(call.rf, C26_Rewritten(call.yHist, p, T, v), call.steps)
                      = ret
            /\ ~hasTrend(call.rf.Model) =>
                  \A T2 \in p..(T + 1), v \in 0..MaxVal :
                      Forecast(call.rf, C26_Rewritten(call.yHist, p, T2, v),
                               call.steps) = ret

\* A forecast by a model with a constant and no trend from a history that has
\* rows before its last p; the same forecast comes from histories of other
\* lengths.
C26_Witness ==
    /\ Returned("Forecast")
    /\ ret.kind = "ok"
    /\ call.yHist.rows > call.rf.Model.Lags
    /\ call.yHist.cols = 2
    /\ call.rf.Model.Deterministic = DetConst
    /\ call.rf.C # NIL
    /\ \E v \in 0..MaxVal :
          C26_Rewritten(call.yHist, call.rf.Model.Lags, call.yHist.rows, v)
              # call.yHist

\* A call of GrangerCausality that builds its design matrices: its arguments
\* pass the checks and the series has more rows than the model has lags.
GrangerBuilds ==
    /\ Returned("GrangerCausality")
    /\ GrangerArgsOK
    /\ IF GrangerArgsOK THEN call.ts.Y.rows > call.rf.Model.Lags ELSE FALSE

\* The specification GrangerCausality reads from its receiver.
GrangerSpecOfCall ==
    ModelSpec(call.rf.Model.Lags, call.rf.Model.Deterministic,
              call.rf.Model.HasExogenous)

\* The column of the unrestricted design that column i of the restricted
\* design holds, when the p columns of causeIdx are removed and the others
\* keep their order.
C27_Kept(i, d, K, causeIdx) ==
    IF i < d THEN i
    ELSE LET b == (i - d) \div (K - 1)
             r == (i - d) % (K - 1)
         IN  d + b * K + (IF r < causeIdx THEN r ELSE r + 1)

\* C27: the restricted design matrix of GrangerCausality has exactly
\* detCols + p * (K - 1) columns and equals the unrestricted design matrix
\* with the p columns detCols + (j - 1) * K + causeIdx (j = 1..p) removed and
\* the remaining columns kept in their order, in every row; the lags of the
\* effect variable itself are kept.
C27_RestrictedDesign ==
    GrangerBuilds =>
        LET Y == call.ts.Y
            K == Y.cols
            p == call.rf.Model.Lags
            d == detCols(GrangerSpecOfCall)
            XU == GrangerXUnrestricted(Y, GrangerSpecOfCall)
            XR == GrangerXRestricted(Y, GrangerSpecOfCall, call.causeIdx)
            removed == {d + (j - 1) * K + call.causeIdx : j \in 1..p}
            kept == [i \in 0..(XR.cols - 1) |-> C27_Kept(i, d, K, call.causeIdx)]
        IN  /\ IsMatrix(XR, Y.rows - p, d + p * (K - 1))
            /\ IsMatrix(XU, Y.rows - p, d + p * K)
            /\ {kept[i] : i \in DOMAIN kept} = (0..(XU.cols - 1)) \ removed
            /\ \A i, i2 \in DOMAIN kept : i < i2 => kept[i] < kept[i2]
            /\ \A t \in 0..(XR.rows - 1), i \in DOMAIN kept :
                  XR.data[t][i] = XU.data[t][kept[i]]
            /\ \A j \in 1..p :
                  d + (j - 1) * K + call.effectIdx \in {kept[i] : i \in DOMAIN kept}

\* A test of cause 0 on effect 1 with a constant and a trend over three
\* regression rows in which the two variables' first lags differ.
C27_Witness ==
    /\ GrangerBuilds
    /\ call.causeIdx = 0
    /\ call.effectIdx = 1
    /\ call.rf.Model.Deterministic = DetConstTrend
    /\ call.ts.Y.rows - call.rf.Model.Lags = 3
    /\ call.ts.Y.data[call.rf.Model.Lags - 1][0]
          # call.ts.Y.data[call.rf.Model.Lags - 1][1]

\* C28: for the same time series, lag order and deterministic term, the
\* unrestricted design matrix built by GrangerCausality equals entry by entry
\* the design matrix built by Estimate, and its response vector equals column
\* effectIdx of Estimate's response matrix.
C28_SameDesignAsEstimate ==
    GrangerBuilds =>
        LET Y == call.ts.Y
            p == call.rf.Model.Lags
            XU == GrangerXUnrestricted(Y, GrangerSpecOfCall)
            y == GrangerYEffect(Y, p, call.effectIdx)
            X == EstimateX(Y, GrangerSpecOfCall)
            Yreg == EstimateYreg(Y, p)
        IN  /\ XU.rows = X.rows /\ XU.cols = X.cols
            /\ \A t \in 0..(X.rows - 1), c \in 0..(X.cols - 1) :
                  XU.data[t][c] = X.data[t][c]
            /\ y.rows = Yreg.rows
            /\ \A t \in 0..(Yreg.rows - 1) :
                  y.data[t][0] = Yreg.data[t][call.effectIdx]

\* A test on a trend-only model over two regression rows or more whose
\* effect column differs from its cause column.
C28_Witness ==
    /\ GrangerBuilds
    /\ call.rf.Model.Deterministic = DetTrend
    /\ call.ts.Y.rows - call.rf.Model.Lags >= 2
    /\ \E t \in 0..(call.ts.Y.rows - 1) :
          call.ts.Y.data[t][call.effectIdx] # call.ts.Y.data[t][call.causeIdx]

\* C29: Forecast returns either a forecast or an error, without an
\* out-of-range matrix access, for every history whose column count differs
\* from the model's variable count K (more or fewer columns than the lag
\* matrices have).  Stated for models that hold all the lag matrices their
\* Lags field asks for.
C29_ForecastOtherWidth ==
    (/\ Returned("Forecast")
     /\ IF call.rf = NIL THEN FALSE
        ELSE /\ Len(call.rf.A) >= 1
             /\ call.rf.Model.Lags <= Len(call.rf.A)
             /\ call.yHist.cols # call.rf.A[1].rows) =>
        /\ ret.kind \in {"ok", "error"}
        /\ ret.kind = "ok" => ForecastInRange(call.rf, call.yHist.cols)

\* Forecast on a history with more columns than the lag matrices have, all
\* guards passed and all lag matrices present, ends in a run-time panic.
C29_PanicReached ==
    /\ Returned("Forecast")
    /\ ~ForecastBadInput(call.rf, call.yHist, call.steps)
    /\ call.rf.Model.Lags <= Len(call.rf.A)
    /\ call.yHist.cols > call.rf.A[1].rows
    /\ ret.kind = "panic"

\* On a history with fewer columns than the lag matrices have Forecast
\* returns a forecast as wide as the history.
C29_NarrowerHolds ==
    (/\ Returned("Forecast")
     /\ ~ForecastBadInput(call.rf, call.yHist, call.steps)
     /\ IF ForecastBadInput(call.rf, call.yHist, call.steps) THEN FALSE
        ELSE /\ call.rf.Model.Lags <= Len(call.rf.A)
             /\ call.yHist.cols < call.rf.A[1].rows) =>
        /\ ret.kind = "ok"
        /\ IsMatrix(ret.val, call.steps, call.yHist.cols)

\* C30: for every model with at least one lag matrix and a positive Lags
\* field, Forecast and IRF never read a lag matrix at an index >= the number
\* of lag matrices the model holds, also for hand-built models whose Lags
\* field differs from that number; every model produced by Estimate has Lags
\* equal to the number of lag matrices.
C30_LagReadsInRange ==
    /\ (/\ Returned("Forecast")
        /\ ~ForecastBadInput(call.rf, call.yHist, call.steps)
        /\ IF ForecastBadInput(call.rf, call.yHist, call.steps) THEN FALSE
           ELSE call.yHist.cols = call.rf.A[1].rows) =>
          /\ \A lag \in 1..call.rf.Model.Lags : lag - 1 < Len(call.rf.A)
          /\ ret.kind # "panic"
    /\ (Returned("IRF") /\ ~IRFBadInput(call.rf, call.horizon, call.shockIndex)) =>
          /\ IRFInRange(call.rf, call.horizon)
          /\ ret.kind # "panic"
    /\ (Returned("Estimate") /\ ret.kind = "ok") =>
          Len(ret.val.A) = ret.val.Model.Lags

\* IRF over three periods on a model with Lags = 2 and one lag matrix: the
\* Psi loop reads rf.A[1] at h = 2 and panics.
C30_PanicReached ==
    /\ Returned("IRF")
    /\ ~IRFBadInput(call.rf, call.horizon, call.shockIndex)
    /\ call.rf.Model.Lags = 2
    /\ Len(call.rf.A) = 1
    /\ call.horizon = 3
    /\ ret.kind = "panic"

\* What holds: every model Estimate returns has as many lag matrices as its
\* Lags field says, and on such models neither call reads past them.
C30_EstimatedModelsHold ==
    /\ (Returned("Estimate") /\ ret.kind = "ok") =>
          Len(ret.val.A) = ret.val.Model.Lags
    /\ (/\ Returned("Forecast")
        /\ IF call.rf = NIL THEN FALSE
           ELSE ForecastWellFormed(call.rf, call.yHist, call.steps)) =>
          ret.kind # "panic"
    /\ (/\ Returned("IRF")
        /\ IF call.rf = NIL THEN FALSE
           ELSE IRFWellFormed(call.rf, call.horizon, call.shockIndex)) =>
          ret.kind # "panic"

====
